---- MODULE Spec2Model ----
(***************************************************************************)
(* Verification model of the security/authentication runtime of           *)
(* dify-fe-auth: token validator, key directory cache, session manager,   *)
(* cookie signer, rate limiters and the request identity resolver.        *)
(*                                                                         *)
(* Each component has its own specification over the shared variables:    *)
(*   SpecTok   token validator (lib/token-validator.ts, microsoft-keys.ts) *)
(*   SpecSess  session manager and identity resolver                       *)
(*   SpecSign  cookie signer                                               *)
(*   SpecRate  rate limiters                                               *)
(***************************************************************************)
EXTENDS Integers, Sequences, FiniteSets, TLC

None == "none"
Absent == "absent"
\* a numeric claim (exp, nbf, iat) that the payload does not carry
NoClaim == -1

(***************************************************************************)
(* Bounds of the model.                                                    *)
(***************************************************************************)
\* last clock value of the token validator runs (one tick = one minute)
MaxTime == 4
\* scaled budget of the validation rate limiter (100 in the source)
ValidationPoints == 1
\* rejected consume calls followed per rate-limit window
MaxOver == 1
\* last clock value of the session manager runs
MaxSessionTime == 3
\* session ids generated per run
MaxSessions == 3
\* longest cookie value handed to the signer, in characters
MaxLen == 3
\* longest x-forwarded-for header, in characters
MaxHeaderLen == 3
\* last clock value of the rate limiter runs (one tick = 250 ms)
MaxRateTime == 10
\* scaled points of the rules api (100 in the source) and auth (20)
ApiPoints == 2
AuthPoints == 1
\* scaled window of the rules, in seconds (60 in the source)
RateDuration == 1
\* scaled block duration of the rule auth, in seconds (300 in the source)
AuthBlockDuration == 2
\* sessions per run whose tokens get refreshed by updateSession
MaxUpdated == 1
\* scaled idle timeout of a session, in clock ticks (3600000 ms in the source)
SESSION_TIMEOUT == 2
\* scaled cap of concurrent sessions per user (5 in the source)
MAX_CONCURRENT_SESSIONS == 2

(***************************************************************************)
(* Program constants of the token validator, in minutes.                   *)
(***************************************************************************)
\* validationCache stdTTL: 300 s
VerdictTTL == 5
\* TTL of a cached "Token is blacklisted" verdict: 60 s
RevokedTTL == 1
\* blacklistCache stdTTL: 86400 s
BlacklistTTL == 1440
\* rateLimiter duration: 60 s
ValidationWindow == 1
\* allowed clock skew of the iat claim: 300 s
IatSkew == 5

VARIABLES
  now,              \* wall clock (Date.now()), in the unit of the running specification
  validationCache,  \* token-validator: NodeCache of verdicts, by cache key
  blacklistCache,   \* token-validator: NodeCache of blacklist entries, by token hash
  keysCache,        \* microsoft-keys: set of key ids whose PEM is cached
  rateLimiter,      \* token-validator: RateLimiterMemory state per client IP
  call,             \* the validateAccessToken calls in flight, per call slot
  inPlay,           \* the tokens presented to the validator in this run
  lastDone,         \* history: the validateAccessToken call that returned last
  sessionStore,     \* session-manager-simple: Map sessionId -> SessionData
  userSessions,     \* session-manager-simple: Map userId -> Set of sessionIds, in insertion order
  nextSessionId,    \* number of session ids generated so far
  cookie,           \* the session_id cookie held by the client
  sessRet,          \* history: the session operation or identity resolution that returned last
  signed,           \* cookie signer: the string the last sign call produced
  signRet,          \* history: the cookie signer operation that returned last
  limiters,         \* RateLimiterService: per rule and key, the points consumed and the expiry
  requestCounts,    \* rate-limiter-api: Map key -> {count, resetTime}
  rateRet,          \* history: the rate limit check that returned last
  redisKeys,        \* redis-session-store: the session:<id> keys, each with its expiry
  redisSets,        \* redis-session-store: the user_sessions:<userId> sets, each with its expiry
  sweep,            \* redis-session-store: the position of the cleanup() in progress
  redisRet          \* history: the persistent-backend operation that returned last

tokVars == <<validationCache, blacklistCache, keysCache, rateLimiter, call, inPlay, lastDone>>
redisVars == <<redisKeys, redisSets, sweep, redisRet>>
sessVars == <<sessionStore, userSessions, nextSessionId, cookie, sessRet, redisVars>>
signVars == <<signed, signRet>>
rateVars == <<limiters, requestCounts, rateRet>>
vars == <<now, validationCache, blacklistCache, keysCache, rateLimiter, call, inPlay, lastDone,
          sessionStore, userSessions, nextSessionId, cookie, sessRet,
          signed, signRet, limiters, requestCounts, rateRet,
          redisKeys, redisSets, sweep, redisRet>>

(***************************************************************************)
(* Tokens.  A token is described by what jwt.decode / jwt.verify and the   *)
(* claim checks can observe of it.                                         *)
(***************************************************************************)
GoodToken ==
  [id |-> "good", wellFormed |-> TRUE, kid |-> "k1", alg |-> "RS256",
   sigOK |-> TRUE, iss |-> "accepted", exp |-> 60, nbf |-> NoClaim, iat |-> 0,
   aud |-> "client", oid |-> "o1", sub |-> "s1"]

TokenUniverse ==
  { GoodToken,
    [GoodToken EXCEPT !.id = "subonly", !.oid = Absent],
    [GoodToken EXCEPT !.id = "nosubject", !.oid = Absent, !.sub = Absent],
    [GoodToken EXCEPT !.id = "malformed", !.wellFormed = FALSE],
    [GoodToken EXCEPT !.id = "nokid", !.kid = Absent],
    [GoodToken EXCEPT !.id = "unknownkid", !.kid = "kx"],
    [GoodToken EXCEPT !.id = "forged", !.sigOK = FALSE],
    [GoodToken EXCEPT !.id = "algnone", !.alg = "none"],
    [GoodToken EXCEPT !.id = "badissuer", !.iss = "other"],
    [GoodToken EXCEPT !.id = "shortlived", !.exp = 2],
    [GoodToken EXCEPT !.id = "noexp", !.exp = NoClaim],
    [GoodToken EXCEPT !.id = "notyet", !.nbf = 3],
    [GoodToken EXCEPT !.id = "futureiat", !.iat = 8],
    [GoodToken EXCEPT !.id = "audother", !.aud = "other"],
    [GoodToken EXCEPT !.id = "noaud", !.aud = Absent, !.kid = "k2"] }

\* the key ids of the key-set document published by the identity provider
JWKSKids == {"k1", "k2", "k3"}
ClientIps == {"ip1", None}
\* two requests may be inside validateAccessToken at the same time
Calls == {"c1", "c2"}

(***************************************************************************)
(* Cache keys.  getTokenHash is a 64-bit prefix of SHA-256; over the       *)
(* tokens of the model it is collision free, and the cache key prefixes it.*)
(***************************************************************************)
getTokenHash(t) == <<"sha256", t.id>>
getTokenCacheKey(t) == <<"validation_", getTokenHash(t)>>

(***************************************************************************)
(* NodeCache: an entry set at time s with ttl d is served while now <= s+d.*)
(***************************************************************************)
NoEntry == [present |-> FALSE]
CacheSet(cache, key, value, ttl) ==
  [cache EXCEPT ![key] = [present |-> TRUE, value |-> value, t |-> now + ttl]]
CacheDel(cache, key) == [cache EXCEPT ![key] = NoEntry]
CacheHas(cache, key) == cache[key].present /\ cache[key].t >= now
CacheGet(cache, key) == IF CacheHas(cache, key) THEN cache[key].value ELSE None

(***************************************************************************)
(* Verdicts (TokenValidationResult).                                       *)
(***************************************************************************)
Invalid(err) == [valid |-> FALSE, error |-> err, payload |-> None, userInfo |-> [id |-> None]]

\* id taken from sub before oid
extractUserInfo_SubFirst(payload) ==
  [id |-> IF payload.sub # Absent THEN payload.sub ELSE payload.oid]

extractUserInfo(payload) ==
  [id |-> IF payload.oid # Absent THEN payload.oid ELSE payload.sub]

Valid(t) == [valid |-> TRUE, error |-> None, payload |-> t.id, userInfo |-> extractUserInfo(t)]

isTokenBlacklisted(t) == CacheHas(blacklistCache, getTokenHash(t))

\* jwt.verify without the algorithms option
jwtVerify_AnyAlgorithm(t) ==
  /\ t.sigOK
  /\ t.iss = "accepted"
  /\ (t.exp # NoClaim => now < t.exp)
  /\ (t.nbf # NoClaim => t.nbf <= now)

\* jwt.verify(token, publicKey, {algorithms: ['RS256'], issuer: [...]}):
\* the pinned algorithm, the signature, the issuer, and the library's own
\* exp / nbf checks against the current time.
jwtVerify(t) ==
  /\ t.alg = "RS256"
  /\ t.sigOK
  /\ t.iss = "accepted"
  /\ (t.exp # NoClaim => now < t.exp)
  /\ (t.nbf # NoClaim => t.nbf <= now)

\* a numeric claim in a condition (payload.exp && ...): absent and 0 are falsy
Present(claim) == claim # NoClaim /\ claim # 0

\* validateTokenClaims(payload) at second `time`, with `clientId` the value
\* of NEXT_PUBLIC_MSAL_CLIENT_ID (Absent when not configured); the string
\* claims of the model are non-empty when present
validateTokenClaimsAt(payload, clientId, time) ==
  /\ ~(Present(payload.exp) /\ payload.exp < time)
  /\ ~(Present(payload.nbf) /\ payload.nbf > time)
  /\ ~(Present(payload.iat) /\ payload.iat > time + IatSkew)
  /\ ~(clientId # Absent /\ payload.aud # Absent /\ payload.aud # clientId)
  /\ ~(payload.oid = Absent /\ payload.sub = Absent)

\* the claim check inside validateAccessToken: the client id is configured
validateTokenClaims(t) == validateTokenClaimsAt(t, "client", now)

(***************************************************************************)
(* RateLimiterMemory.consume(ip): TRUE when the point is granted.          *)
(***************************************************************************)
NoRate == [consumed |-> 0, expires |-> 0]
RateLive(r) == r.consumed > 0 /\ r.expires > now
RateAfterConsume(r) ==
  IF RateLive(r) THEN [r EXCEPT !.consumed = r.consumed + 1]
  ELSE [consumed |-> 1, expires |-> now + ValidationWindow]
\* a limiter that lets one call more through than its points
RateGranted_OneOver(r) == RateAfterConsume(r).consumed <= ValidationPoints + 1

RateGranted(r) == RateAfterConsume(r).consumed <= ValidationPoints

(***************************************************************************)
(* Initial state of the token validator.                                   *)
(***************************************************************************)
IdleCall == [pc |-> "idle"]
NoCall == [tok |-> None]

\* the validator before its first call, with `tokens` the tokens of the run
TokInit(tokens) ==
  /\ inPlay = tokens
  /\ validationCache = [k \in { getTokenCacheKey(t) : t \in tokens } |-> NoEntry]
  /\ blacklistCache = [h \in { getTokenHash(t) : t \in tokens } |-> NoEntry]
  /\ keysCache = {}
  /\ rateLimiter = [ip \in ClientIps \ {None} |-> NoRate]
  /\ call = [c \in Calls |-> IdleCall]
  /\ lastDone = NoCall

Tick(last) ==
  /\ now < last
  /\ now' = now + 1
  /\ UNCHANGED <<tokVars, sessVars, signVars, rateVars>>

(***************************************************************************)
(* validateAccessToken, one action per stretch of code between two awaits. *)
(***************************************************************************)
\* the call returns `verdict` to its caller and leaves its slot.  lastDone
\* keeps the history of that call: what it returned, whether the verdict
\* came from the cache (and since when it has been cached), whether the
\* token was on the blacklist when the call started, and whether the call
\* obtained a signing key
Return(c, t, verdict, hit, blk, keyOk) ==
  /\ call' = [call EXCEPT ![c] = IdleCall]
  /\ lastDone' = [tok |-> t.id, ret |-> verdict, hit |-> hit, blk |-> blk, keyOk |-> keyOk,
                  at |-> now,
                  since |-> IF hit THEN validationCache[getTokenCacheKey(t)].t - VerdictTTL
                            ELSE now]

\* the call returns `verdict` without caching it
ReturnUncached(c, verdict, ttl, keyOk) ==
  /\ UNCHANGED validationCache
  /\ Return(c, call[c].tok, verdict, FALSE, call[c].blk, keyOk)

\* the call caches `verdict` for `ttl` and returns it
CacheAndReturn(c, verdict, ttl, keyOk) ==
  /\ validationCache' = CacheSet(validationCache, getTokenCacheKey(call[c].tok), verdict, ttl)
  /\ Return(c, call[c].tok, verdict, FALSE, call[c].blk, keyOk)

\* lines 54-75: the rate check, the cache lookup and the blacklist read
ValidateBegin(c, t, ip) ==
  /\ call[c].pc = "idle"
  \* the second slot is taken only while the first is in flight
  /\ c = "c2" => call["c1"].pc # "idle"
  /\ ip # None => RateAfterConsume(rateLimiter[ip]).consumed <= ValidationPoints + MaxOver
  /\ LET key == getTokenCacheKey(t)
     IN /\ rateLimiter' = IF ip = None THEN rateLimiter
                          ELSE [rateLimiter EXCEPT ![ip] = RateAfterConsume(@)]
        /\ IF ip # None /\ ~RateGranted(rateLimiter[ip])
             THEN Return(c, t, Invalid("Rate limit exceeded"), FALSE, isTokenBlacklisted(t), FALSE)
             ELSE IF CacheHas(validationCache, key)
               THEN Return(c, t, CacheGet(validationCache, key), TRUE, isTokenBlacklisted(t), FALSE)
               ELSE /\ call' = [call EXCEPT ![c] =
                                  [pc |-> "blk", tok |-> t, blk |-> isTokenBlacklisted(t)]]
                    /\ UNCHANGED lastDone
  /\ UNCHANGED <<now, validationCache, blacklistCache, keysCache, inPlay, sessVars, signVars, rateVars>>

\* lines 75-96: the blacklist verdict, the structural decode, the key id
ValidateDecode(c) ==
  /\ call[c].pc = "blk"
  /\ LET t == call[c].tok
     IN IF call[c].blk
          THEN CacheAndReturn(c, Invalid("Token is blacklisted"), RevokedTTL, FALSE)
          ELSE IF ~t.wellFormed
            THEN CacheAndReturn(c, Invalid("Invalid token structure"), VerdictTTL, FALSE)
            ELSE IF t.kid = Absent
              THEN CacheAndReturn(c, Invalid("Invalid token signature"), VerdictTTL, FALSE)
              ELSE /\ call' = [call EXCEPT ![c].pc = "key"]
                   /\ UNCHANGED <<validationCache, lastDone>>
  /\ UNCHANGED <<now, blacklistCache, keysCache, rateLimiter, inPlay, sessVars, signVars, rateVars>>

(***************************************************************************)
(* Key resolver (lib/microsoft-keys.ts).  A network is what the two        *)
(* discovery endpoints and the key-set endpoint answer to one call.        *)
(***************************************************************************)
\* a discovery endpoint answers with a document that names the key-set URI,
\* with a document without it, with an error status, or the fetch throws
\* (connection error, 10 s timeout, unparsable body)
DiscoveryOutcomes == {"uri", "nouri", "status", "throws"}
\* the key-set endpoint answers with a key set, with a body that has no key
\* array, with an error status, or the fetch throws
JwksOutcomes == {"keys", "invalid", "status", "throws"}
Networks == [d1 : DiscoveryOutcomes, d2 : DiscoveryOutcomes, jwks : JwksOutcomes]

\* the key ids a caller can ask for: those of the document, an unknown one,
\* and none (preloadMicrosoftKeys)
KeyIds == JWKSKids \cup {"kx", Absent}

\* convertJWKToPEM(jwk): whether key material comes back; k3 is not an RSA key
convertJWKToPEM(kid) == kid \in {"k1", "k2"}

\* getJWKSUriFromDiscovery(): whether one of the endpoints, tried in order,
\* yields the key-set URI
getJWKSUriFromDiscovery(net) == net.d1 = "uri" \/ net.d2 = "uri"

\* fetchMicrosoftJWKS(): whether the key-set document comes back
fetchMicrosoftJWKS(net) == getJWKSUriFromDiscovery(net) /\ net.jwks = "keys"

\* the network requests one uncached resolution makes
Fetches(net) ==
  (IF net.d1 = "uri" THEN 1 ELSE 2) + (IF getJWKSUriFromDiscovery(net) THEN 1 ELSE 0)

getMicrosoftPublicKeys_AnyNetwork(cache, kid, net) ==
  [key |-> kid \in cache \/ (kid \in JWKSKids /\ convertJWKToPEM(kid)),
   cache |-> cache, fetches |-> 0, threw |-> FALSE]
\* getMicrosoftPublicKeys(kid): whether a key comes back, the key ids cached
\* afterwards, the network requests made; every exception is caught
getMicrosoftPublicKeys(cache, kid, net) ==
  IF kid # Absent /\ kid \in cache
    THEN [key |-> TRUE, cache |-> cache, fetches |-> 0, threw |-> FALSE]
  ELSE IF ~fetchMicrosoftJWKS(net)
    THEN [key |-> FALSE, cache |-> cache, fetches |-> Fetches(net), threw |-> FALSE]
  ELSE IF kid # Absent /\ kid \notin JWKSKids
    THEN [key |-> FALSE, cache |-> cache, fetches |-> Fetches(net), threw |-> FALSE]
  ELSE IF kid # Absent /\ convertJWKToPEM(kid)
    THEN [key |-> TRUE, cache |-> cache \cup {kid}, fetches |-> Fetches(net), threw |-> FALSE]
  ELSE [key |-> kid = Absent /\ convertJWKToPEM("k1"),
        cache |-> cache \cup {k \in JWKSKids : convertJWKToPEM(k)},
        fetches |-> Fetches(net), threw |-> FALSE]

\* the payloads handed to the claim check: every combination of the claims
\* it reads, the numeric ones on both sides of each threshold and at 0
ClaimTimes == {NoClaim} \cup 0..MaxTime
IssuedTimes == {NoClaim, 0, IatSkew, IatSkew + 1, MaxTime + IatSkew, MaxTime + IatSkew + 1}
Payloads ==
  [exp : ClaimTimes, nbf : ClaimTimes, iat : IssuedTimes,
   aud : {Absent, "client", "other"}, oid : {Absent, "o1"}, sub : {Absent, "s1"}]
ClientIdSettings == {Absent, "client"}

\* validateTokenClaims(payload) as a call of its own
CheckClaims(payload, clientId) ==
  /\ [payload |-> payload, clientId |-> clientId] \in inPlay
  /\ lastDone' = [op |-> "validateTokenClaims", payload |-> payload, clientId |-> clientId,
                  at |-> now, ret |-> validateTokenClaimsAt(payload, clientId, now)]
  /\ UNCHANGED <<now, validationCache, blacklistCache, keysCache, rateLimiter, call, inPlay,
                 sessVars, signVars, rateVars>>

\* getMicrosoftPublicKeys(kid) as a call of its own
ResolveKey(kid, net) ==
  /\ keysCache' = getMicrosoftPublicKeys(keysCache, kid, net).cache
  /\ lastDone' = [op |-> "getMicrosoftPublicKeys", kid |-> kid, net |-> net,
                  before |-> keysCache,
                  key |-> getMicrosoftPublicKeys(keysCache, kid, net).key,
                  fetches |-> getMicrosoftPublicKeys(keysCache, kid, net).fetches,
                  threw |-> getMicrosoftPublicKeys(keysCache, kid, net).threw]
  /\ UNCHANGED <<now, validationCache, blacklistCache, rateLimiter, call, inPlay,
                 sessVars, signVars, rateVars>>

\* clearKeysCache()
clearKeysCache ==
  /\ keysCache' = {}
  /\ lastDone' = [op |-> "clearKeysCache", before |-> keysCache]
  /\ UNCHANGED <<now, validationCache, blacklistCache, rateLimiter, call, inPlay,
                 sessVars, signVars, rateVars>>

\* the networks a validation meets: everything up, every discovery endpoint
\* down, the key-set fetch down
AllUp == [d1 |-> "uri", d2 |-> "uri", jwks |-> "keys"]
DiscoveryDown == [d1 |-> "throws", d2 |-> "status", jwks |-> "keys"]
JwksDown == [d1 |-> "throws", d2 |-> "uri", jwks |-> "throws"]
ValidateNetworks == {AllUp, DiscoveryDown, JwksDown}

\* getMicrosoftPublicKeys(kid): the key ids cached afterwards
KeysAfterResolve(kid, net) == getMicrosoftPublicKeys(keysCache, kid, net).cache

\* getMicrosoftPublicKeys(kid): whether a key comes back
KeyResolved(kid, net) == getMicrosoftPublicKeys(keysCache, kid, net).key

\* lines 96-118: key resolution, jwt.verify, the claim checks
ValidateSignature(c, net) ==
  /\ call[c].pc = "key"
  /\ LET t == call[c].tok
     IN /\ keysCache' = KeysAfterResolve(t.kid, net)
        /\ IF ~(KeyResolved(t.kid, net) /\ jwtVerify(t))
             THEN CacheAndReturn(c, Invalid("Invalid token signature"), VerdictTTL,
                                 KeyResolved(t.kid, net))
             ELSE IF ~validateTokenClaims(t)
               THEN CacheAndReturn(c, Invalid("Invalid token claims"), VerdictTTL, TRUE)
               ELSE /\ call' = [call EXCEPT ![c].pc = "graph"]
                    /\ UNCHANGED <<validationCache, lastDone>>
  /\ UNCHANGED <<now, blacklistCache, rateLimiter, inPlay, sessVars, signVars, rateVars>>

\* lines 118-139: the answer of the user-info endpoint, the final verdict
ValidateGraph(c, graphOk) ==
  /\ call[c].pc = "graph"
  /\ IF ~graphOk
       THEN CacheAndReturn(c, Invalid("Microsoft Graph validation failed"), VerdictTTL, TRUE)
       ELSE CacheAndReturn(c, Valid(call[c].tok), VerdictTTL, TRUE)
  /\ UNCHANGED <<now, blacklistCache, keysCache, rateLimiter, inPlay, sessVars, signVars, rateVars>>

blacklistToken(t) ==
  /\ blacklistCache' = CacheSet(blacklistCache, getTokenHash(t), "reason", BlacklistTTL)
  /\ validationCache' = CacheDel(validationCache, getTokenCacheKey(t))
  /\ lastDone' = NoCall
  /\ UNCHANGED <<now, keysCache, rateLimiter, call, inPlay, sessVars, signVars, rateVars>>

removeFromBlacklist(t) ==
  /\ blacklistCache' = CacheDel(blacklistCache, getTokenHash(t))
  /\ validationCache' = CacheDel(validationCache, getTokenCacheKey(t))
  /\ lastDone' = NoCall
  /\ UNCHANGED <<now, keysCache, rateLimiter, call, inPlay, sessVars, signVars, rateVars>>

(***************************************************************************)
(* Session manager (lib/session-manager-simple.ts) and identity resolver   *)
(* (app/api/utils/common.ts).  Each exported operation runs to its return  *)
(* as one step: the store and the index are only touched between awaits.   *)
(***************************************************************************)
Users == {"u1", "u2"}
SessionIds == 1..MaxSessions

\* the expiresOn member of a token data object: missing, a Date, or a value
\* that is not a Date (a JSON body carries dates as strings)
NoDate == [kind |-> "none"]
DateOf(t) == [kind |-> "date", time |-> t]
StringDate == [kind |-> "string"]

\* an expiry that no run reaches
LateExpiry == 9

\* the token data of the callers: the session route passes a JSON body, in
\* which expiresOn is missing or a string
CreateInputs ==
  { [accessToken |-> "at1", refreshToken |-> None, expiresOn |-> NoDate],
    [accessToken |-> "at1", refreshToken |-> None, expiresOn |-> StringDate] }
UpdateInputs ==
  { [accessToken |-> "at2", refreshToken |-> "rt2", expiresOn |-> NoDate],
    [accessToken |-> "at2", refreshToken |-> None, expiresOn |-> DateOf(LateExpiry)],
    [accessToken |-> "at2", refreshToken |-> None, expiresOn |-> StringDate] }

\* tokenData.expiresOn?.getTime() raises a TypeError on a value without getTime
GetTimeThrows(td) == td.expiresOn.kind = "string"
\* tokenData.expiresOn?.getTime() || fallback
ExpiryOr(td, fallback) ==
  IF td.expiresOn.kind = "date" /\ td.expiresOn.time # 0 THEN td.expiresOn.time ELSE fallback

\* values of the session_id cookie
NoCookie == [kind |-> "missing"]
GarbageCookie == [kind |-> "garbage"]
\* setSession(sessionId): the session_id cookie that carries an anonymous
\* session id in the clear; its value is the id itself
AnonCookie(id) == [kind |-> "generated", random |-> id]
\* encryptTokenData({sessionId, userId, createdAt})
encryptTokenData(sessionId, userId, createdAt) ==
  [kind |-> "enc", sessionId |-> sessionId, userId |-> userId, createdAt |-> createdAt]
setSessionCookie_WithToken(sessionId, sessionData) ==
  [kind |-> "enc", sessionId |-> sessionId, userId |-> sessionData.userId,
   createdAt |-> sessionData.createdAt, accessToken |-> sessionData.accessToken]
\* setSessionCookie(sessionId, sessionData): the value of the session_id cookie
setSessionCookie(sessionId, sessionData) ==
  encryptTokenData(sessionId, sessionData.userId, sessionData.createdAt)
\* decryptTokenData: the object behind a ciphertext, an exception on anything else
DecryptThrows(c) == c.kind # "enc"

NoSession == [present |-> FALSE]
HasSession(store, id) == id \in DOMAIN store
SessionAt(store, id) == IF HasSession(store, id) THEN store[id] ELSE NoSession
MapSet(store, id, rec) == [k \in DOMAIN store \cup {id} |-> IF k = id THEN rec ELSE store[k]]
MapDelete(store, id) == [k \in DOMAIN store \ {id} |-> store[k]]
SetDelete(seq, id) == SelectSeq(seq, LAMBDA x : x # id)
SetAdd(seq, id) == IF \E i \in 1..Len(seq) : seq[i] = id THEN seq ELSE Append(seq, id)
SetOf(seq) == {seq[i] : i \in 1..Len(seq)}

isSessionExpired(session, t) ==
  \/ session.tokenExpiry # 0 /\ session.tokenExpiry < t
  \/ t - session.lastActivity > SESSION_TIMEOUT

\* the state the operations thread through: store, index and the cookie jar
\* of the request (inReq is false when cookies() is unavailable and raises)
clearSessionCookie_Forgotten(st, inReq) == st
clearSessionCookie(st, inReq) == IF inReq THEN [st EXCEPT !.cookie = NoCookie] ELSE st

\* userSessions.get(userId) as the list of its ids: none when the user has no entry
IndexAt(index, userId) == IF userId \in DOMAIN index THEN index[userId] ELSE <<>>

\* userSessionSet.delete(sessionId) that keeps the entry of a user without ids
IndexDelete_KeepEmpty(index, userId, sessionId) ==
  IF userId \notin DOMAIN index THEN index
  ELSE MapSet(index, userId, SetDelete(index[userId], sessionId))

\* userSessionSet.delete(sessionId), and the user's entry goes with its last id
IndexDelete(index, userId, sessionId) ==
  IF userId \notin DOMAIN index THEN index
  ELSE IF SetDelete(index[userId], sessionId) = <<>> THEN MapDelete(index, userId)
  ELSE MapSet(index, userId, SetDelete(index[userId], sessionId))

destroySessionIn(st, sessionId, inReq) ==
  LET st1 == IF HasSession(st.store, sessionId)
             THEN [st EXCEPT !.index = IndexDelete(@, st.store[sessionId].userId, sessionId),
                             !.store = MapDelete(@, sessionId)]
             ELSE st
  IN clearSessionCookie(st1, inReq)

RECURSIVE DestroyAll(_, _, _)
DestroyAll(st, ids, inReq) ==
  IF ids = <<>> THEN st
  ELSE DestroyAll(destroySessionIn(st, Head(ids), inReq), Tail(ids), inReq)

\* Array.prototype.sort with (a, b) => b.createdAt - a.createdAt: stable, newest first
RECURSIVE SortNewestFirst(_, _)
SortNewestFirst_Unsorted(store, ids) == ids
SortNewestFirst(store, ids) ==
  IF ids = <<>> THEN <<>>
  ELSE LET front == SortNewestFirst(store, SubSeq(ids, 1, Len(ids) - 1))
           x == ids[Len(ids)]
           k == Cardinality({i \in 1..Len(front) : store[front[i]].createdAt >= store[x].createdAt})
       IN SubSeq(front, 1, k) \o <<x>> \o SubSeq(front, k + 1, Len(front))

cleanupUserSessions_KeepCap(st, userId, inReq) ==
  LET sessionIds == IndexAt(st.index, userId)
      sessionsWithTime == SortNewestFirst(st.store, SelectSeq(sessionIds, LAMBDA id : HasSession(st.store, id)))
  IN IF Len(sessionIds) > MAX_CONCURRENT_SESSIONS
     THEN DestroyAll(st, SubSeq(sessionsWithTime, MAX_CONCURRENT_SESSIONS + 1, Len(sessionsWithTime)), inReq)
     ELSE st
cleanupUserSessions(st, userId, inReq) ==
  LET sessionIds == IndexAt(st.index, userId)
      sessionsWithTime == SortNewestFirst(st.store, SelectSeq(sessionIds, LAMBDA id : HasSession(st.store, id)))
      sessionsToRemove == SubSeq(sessionsWithTime, MAX_CONCURRENT_SESSIONS, Len(sessionsWithTime))
  IN IF Len(sessionIds) >= MAX_CONCURRENT_SESSIONS
     THEN DestroyAll(st, sessionsToRemove, inReq)
     ELSE st
\* the sessions that cleanupUserSessions removes, in the order of its loop
sessionsToRemove(st, userId) ==
  LET sessionIds == IndexAt(st.index, userId)
      sessionsWithTime == SortNewestFirst(st.store, SelectSeq(sessionIds, LAMBDA id : HasSession(st.store, id)))
  IN IF Len(sessionIds) >= MAX_CONCURRENT_SESSIONS
     THEN SubSeq(sessionsWithTime, MAX_CONCURRENT_SESSIONS, Len(sessionsWithTime))
     ELSE <<>>

Cur == [store |-> sessionStore, index |-> userSessions, cookie |-> cookie]
Commit(st) ==
  /\ sessionStore' = st.store
  /\ userSessions' = st.index
  /\ cookie' = st.cookie

SessInit ==
  /\ sessionStore = <<>>
  /\ userSessions = [u \in {} |-> <<>>]
  /\ nextSessionId = 0
  /\ cookie = NoCookie
  /\ sessRet = [op |-> "none"]
  /\ redisKeys = <<>>
  /\ redisSets = [u \in Users |-> [members |-> {}, expires |-> 0]]
  /\ sweep = [pc |-> "idle"]
  /\ redisRet = [op |-> "none"]

sessFrame == <<now, tokVars, signVars, rateVars, redisVars>>

userInfoOf(userId) == [id |-> userId, email |-> <<"email", userId>>, name |-> <<"name", userId>>]

\* createSession(tokenData, userInfo) with `sessionId` the generated id: the
\* store, index and cookie jar it leaves and whether it raises.  The call
\* raises after the eviction when expiresOn has no getTime, and after the
\* insert when the cookie cannot be set.
createSessionIn(st, sessionId, userId, tokenData, inReq) ==
  LET userInfo == userInfoOf(userId)
      st1 == cleanupUserSessions(st, userId, inReq)
      sessionData == [sessionId |-> sessionId,
                      userId |-> userInfo.id,
                      email |-> userInfo.email,
                      name |-> userInfo.name,
                      accessToken |-> tokenData.accessToken,
                      refreshToken |-> tokenData.refreshToken,
                      tokenExpiry |-> ExpiryOr(tokenData, now + SESSION_TIMEOUT),
                      createdAt |-> now,
                      lastActivity |-> now]
      st2 == [st1 EXCEPT !.store = MapSet(@, sessionId, sessionData),
                         !.index = MapSet(@, userId, SetAdd(IndexAt(@, userId), sessionId))]
      st3 == [st2 EXCEPT !.cookie = setSessionCookie(sessionId, sessionData)]
  IN [st |-> IF GetTimeThrows(tokenData) THEN st1 ELSE IF inReq THEN st3 ELSE st2,
      threw |-> GetTimeThrows(tokenData) \/ ~inReq,
      dropped |-> SetOf(IndexAt(st.index, userId)) \ SetOf(IndexAt(st1.index, userId))]

\* createSession(tokenData, userInfo)
createSession(userId, tokenData, inReq) ==
  /\ nextSessionId < MaxSessions
  /\ nextSessionId' = nextSessionId + 1
  /\ Commit(createSessionIn(Cur, nextSessionId + 1, userId, tokenData, inReq).st)
  /\ sessRet' = [op |-> "create", id |-> nextSessionId + 1,
                 threw |-> createSessionIn(Cur, nextSessionId + 1, userId, tokenData, inReq).threw,
                 dropped |-> createSessionIn(Cur, nextSessionId + 1, userId, tokenData, inReq).dropped,
                 removed |-> sessionsToRemove(Cur, userId)]
  /\ UNCHANGED sessFrame

Touched_Stale(session, t) == session
\* session.lastActivity = Date.now()
Touched(session, t) == [session EXCEPT !.lastActivity = t]

\* getSession(sessionId)
getSession(sessionId, inReq) ==
  /\ LET session == SessionAt(sessionStore, sessionId)
         live == Touched(session, now)
     IN IF ~HasSession(sessionStore, sessionId)
        THEN /\ sessRet' = [op |-> "get", found |-> FALSE, threw |-> FALSE]
             /\ UNCHANGED <<sessionStore, userSessions, cookie>>
        ELSE IF isSessionExpired(session, now)
        THEN /\ Commit(destroySessionIn(Cur, sessionId, inReq))
             /\ sessRet' = [op |-> "get", found |-> FALSE, threw |-> FALSE]
        ELSE /\ sessionStore' = MapSet(sessionStore, sessionId, live)
             /\ sessRet' = [op |-> "get", found |-> TRUE, threw |-> FALSE]
             /\ UNCHANGED <<userSessions, cookie>>
  /\ UNCHANGED <<nextSessionId, sessFrame>>

\* updateSession(sessionId, tokenData).  The record is updated in place, so
\* the fields assigned before an exception stay assigned.
updateSession(sessionId, tokenData, inReq) ==
  /\ LET session == SessionAt(sessionStore, sessionId)
         partial == [session EXCEPT !.accessToken = tokenData.accessToken,
                                    !.refreshToken = IF tokenData.refreshToken # None
                                                     THEN tokenData.refreshToken ELSE @]
         updated == [partial EXCEPT !.tokenExpiry = ExpiryOr(tokenData, @),
                                    !.lastActivity = now]
     IN IF ~HasSession(sessionStore, sessionId)
        THEN /\ sessRet' = [op |-> "update", found |-> FALSE, threw |-> FALSE]
             /\ UNCHANGED <<sessionStore, cookie>>
        ELSE IF GetTimeThrows(tokenData)
        THEN /\ sessionStore' = MapSet(sessionStore, sessionId, partial)
             /\ sessRet' = [op |-> "update", found |-> FALSE, threw |-> TRUE]
             /\ UNCHANGED cookie
        ELSE /\ sessionStore' = MapSet(sessionStore, sessionId, updated)
             /\ cookie' = IF inReq THEN setSessionCookie(sessionId, updated) ELSE cookie
             /\ sessRet' = [op |-> "update", found |-> inReq, threw |-> ~inReq]
  /\ UNCHANGED <<userSessions, nextSessionId, sessFrame>>

\* destroySession(sessionId)
destroySession(sessionId, inReq) ==
  /\ Commit(destroySessionIn(Cur, sessionId, inReq))
  /\ sessRet' = [op |-> "destroy", id |-> sessionId, inReq |-> inReq,
                  existed |-> HasSession(sessionStore, sessionId), threw |-> FALSE]
  /\ UNCHANGED <<nextSessionId, sessFrame>>

\* the ids of a Map's entries in iteration order (ids are generated in increasing order)
RECURSIVE KeysInOrder(_)
KeysInOrder(ids) ==
  IF ids = {} THEN <<>>
  ELSE LET m == CHOOSE x \in ids : \A y \in ids : x <= y
       IN <<m>> \o KeysInOrder(ids \ {m})

\* cleanupExpiredSessions()
cleanupExpiredSessions(inReq) ==
  /\ LET expiredSessions == SelectSeq(KeysInOrder(DOMAIN sessionStore),
                                      LAMBDA id : isSessionExpired(sessionStore[id], now))
     IN Commit(DestroyAll(Cur, expiredSessions, inReq))
  /\ sessRet' = [op |-> "sweep", threw |-> FALSE]
  /\ UNCHANGED <<nextSessionId, sessFrame>>

\* getSessionIdFromCookies(): every failure is caught and becomes null (0 here)
getSessionIdFromCookies(reqCookie, inReq) ==
  IF ~inReq \/ reqCookie.kind = "missing" \/ DecryptThrows(reqCookie) THEN 0
  ELSE reqCookie.sessionId

AnonIds == {"g1"}
Failures == {"none", "cookies", "store"}

\* getSessionBasedInfo(request): request.cookies.get('session_id')?.value || generateSessionId()
getSessionBasedInfo(reqCookie, generated) ==
  LET sessionId == IF reqCookie.kind = "missing"
                   THEN [kind |-> "generated", random |-> generated]
                   ELSE IF reqCookie.kind = "generated" THEN reqCookie
                   ELSE [kind |-> "cookie", cookie |-> reqCookie]
  IN [sessionId |-> sessionId, user |-> <<"anon", sessionId>>, isAuthenticated |-> FALSE,
      token |-> None, userInfo |-> [id |-> None]]

\* the session_id cookie a request can carry: the one the client holds, none,
\* an undecryptable value, or a cookie issued earlier for a session id (only
\* the sessionId member of a decrypted cookie is ever read)
ReplayCookie(id) ==
  IF HasSession(sessionStore, id)
  THEN encryptTokenData(id, sessionStore[id].userId, sessionStore[id].createdAt)
  ELSE encryptTokenData(id, "u1", 0)
RequestCookies ==
  {cookie, NoCookie, GarbageCookie}
    \cup { ReplayCookie(id) : id \in 1..nextSessionId }
    \cup { AnonCookie(g) : g \in AnonIds }

\* getInfo(request).  failure: nothing fails, cookies() raises, or the
\* session lookup raises; the resolver's try/catch absorbs the last one.  The Authorization header is read but both
\* of its branches return getSessionBasedInfo(request).
\* the identity getInfo returns and the store, index and cookie jar it leaves
getInfoIn(st, reqCookie, failure, generated) ==
  LET inReq == failure # "cookies"
      storeErr == failure = "store"
      sessionId == getSessionIdFromCookies(reqCookie, inReq)
      session == SessionAt(st.store, sessionId)
      live == Touched(session, now)
      anonymous == getSessionBasedInfo(reqCookie, generated)
  IN IF sessionId = 0 \/ storeErr \/ ~HasSession(st.store, sessionId)
     THEN [st |-> st, info |-> anonymous]
     ELSE IF isSessionExpired(session, now)
     THEN [st |-> destroySessionIn(st, sessionId, inReq), info |-> anonymous]
     ELSE [st |-> [st EXCEPT !.store = MapSet(@, sessionId, live)],
           info |-> [sessionId |-> [kind |-> "session", id |-> live.sessionId],
                     user |-> <<"auth", live.userId>>,
                     isAuthenticated |-> TRUE,
                     token |-> live.accessToken,
                     userInfo |-> [id |-> live.userId, email |-> live.email,
                                   name |-> live.name]]]

getInfoEffect(reqCookie, failure, generated) ==
  /\ Commit(getInfoIn(Cur, reqCookie, failure, generated).st)
  /\ sessRet' = [op |-> "getInfo", req |-> reqCookie,
                 info |-> getInfoIn(Cur, reqCookie, failure, generated).info, threw |-> FALSE]

getInfo(reqCookie, failure, generated) ==
  /\ getInfoEffect(reqCookie, failure, generated)
  /\ UNCHANGED <<nextSessionId, sessFrame>>

\* setSession(sessionId): the value of the session_id cookie of the
\* Set-Cookie header, the session id in the clear
setSession(sessionId) ==
  IF sessionId.kind = "session" THEN [kind |-> "plain", sessionId |-> sessionId.id]
  ELSE IF sessionId.kind = "cookie" THEN sessionId.cookie
  ELSE sessionId

\* getSessionHeaders(request, newSessionId): a Set-Cookie header unless the
\* request already carries that value
getSessionHeaders(reqCookie, newSessionId) ==
  [set |-> reqCookie # setSession(newSessionId), value |-> setSession(newSessionId)]

\* GET /api/conversations (and /api/messages): the identity is resolved and
\* the response carries getSessionHeaders; when the upstream call raises,
\* the 500 response carries no header
conversationsGET(reqCookie, failure, generated, upstreamOk) ==
  /\ LET r == getInfoIn(Cur, reqCookie, failure, generated)
         headers == getSessionHeaders(reqCookie, r.info.sessionId)
     IN /\ sessionStore' = r.st.store
        /\ userSessions' = r.st.index
        /\ cookie' = IF upstreamOk /\ headers.set THEN headers.value ELSE r.st.cookie
        /\ sessRet' = [op |-> "GET", req |-> reqCookie, info |-> r.info,
                       ok |-> upstreamOk, threw |-> FALSE]
  /\ UNCHANGED <<nextSessionId, sessFrame>>

(***************************************************************************)
(* The session route (app/api/auth/session/route.ts) and the client's      *)
(* getAccessToken (hooks/use-auth.ts), for a signed-in account with the    *)
(* identity provider configured.                                           *)
(***************************************************************************)
\* GET /api/auth/session: the response and the store, index and cookie jar
\* the lookup leaves.  The session object of the body names seven members.
sessionGET(st, reqCookie) ==
  LET sessionId == getSessionIdFromCookies(reqCookie, TRUE)
      session == SessionAt(st.store, sessionId)
      live == Touched(session, now)
  IN IF sessionId = 0 \/ ~HasSession(st.store, sessionId)
     THEN [st |-> st, status |-> 401, success |-> FALSE, session |-> [error |-> TRUE]]
     ELSE IF isSessionExpired(session, now)
     THEN [st |-> destroySessionIn(st, sessionId, TRUE), status |-> 401, success |-> FALSE,
           session |-> [error |-> TRUE]]
     ELSE [st |-> [st EXCEPT !.store = MapSet(@, sessionId, live)],
           status |-> 200, success |-> TRUE,
           session |-> [sessionId |-> live.sessionId, userId |-> live.userId,
                        email |-> live.email, name |-> live.name,
                        tokenExpiry |-> live.tokenExpiry,
                        lastActivity |-> live.lastActivity,
                        createdAt |-> live.createdAt]]

\* sessionData.session.accessToken || null
AccessTokenOf(session) ==
  IF "accessToken" \in DOMAIN session THEN session.accessToken ELSE None

\* POST /api/auth/session with a complete body: createSession inside the
\* request; an exception becomes the 500 response
sessionPOST(st, sessionId, tokenData, userId) ==
  [st |-> createSessionIn(st, sessionId, userId, tokenData, TRUE).st,
   status |-> IF createSessionIn(st, sessionId, userId, tokenData, TRUE).threw THEN 500 ELSE 201]

\* what a fetch of the client does: the server answers, or the fetch raises
FetchOutcomes == {"answers", "throws"}
\* the account of the signed-in user
Account == "u1"

\* getAccessToken().  sessionFetch and posting: the fetches of the session
\* route; silent and popup: whether acquireTokenSilent / acquireTokenPopup
\* would succeed; tokenData: the provider's response as JSON.stringify
\* sends it.  Any exception of the first try block leads to the popup.
getAccessToken(sessionFetch, silent, popup, posting, tokenData) ==
  LET got == sessionGET(Cur, cookie)
      fromSession == sessionFetch = "answers" /\ got.status = 200 /\ got.success
      st0 == IF sessionFetch = "answers" THEN got.st ELSE Cur
      silentDone == sessionFetch = "answers" /\ ~fromSession /\ silent /\ posting = "answers"
      popupDone == ~fromSession /\ ~silentDone /\ popup /\ posting = "answers"
      posted == silentDone \/ popupDone
      token == IF fromSession THEN AccessTokenOf(got.session)
               ELSE IF posted THEN tokenData.accessToken
               ELSE None
  IN /\ posted => nextSessionId < MaxSessions
     /\ nextSessionId' = IF posted THEN nextSessionId + 1 ELSE nextSessionId
     /\ Commit(IF posted THEN sessionPOST(st0, nextSessionId + 1, tokenData, Account).st ELSE st0)
     /\ sessRet' = [op |-> "getAccessToken", token |-> token, fromSession |-> fromSession,
                    sessionFetch |-> sessionFetch, silent |-> silent, popup |-> popup,
                    posting |-> posting, threw |-> FALSE]
     /\ UNCHANGED sessFrame

(***************************************************************************)
(* Persistent backend (lib/redis-session-store.ts) and the session manager *)
(* over it (lib/session-manager.ts with useRedis).  Every Redis command is *)
(* a round trip, so the store's loops are interleaved with other calls.    *)
(***************************************************************************)
\* SESSION_TIMEOUT / 1000 seconds, the ttl the session manager passes to set
RedisTTL == SESSION_TIMEOUT

redisFrame == <<tokVars, signVars, rateVars,
                sessionStore, userSessions, nextSessionId, cookie, sessRet>>

\* EXISTS session:<id>.  Session ids are never reused, so a key that
\* expired or was deleted stays in redisKeys with an expiry in the past.
Exists(id) == id \in DOMAIN redisKeys /\ redisKeys[id].expires > now
\* SMEMBERS user_sessions:<userId>
SMembers(userId) ==
  IF redisSets[userId].expires > now THEN redisSets[userId].members ELSE {}
\* a set key that DEL removed, or that SREM emptied, is gone
NoSet == [members |-> {}, expires |-> 0]
\* a key that was written without EXPIRE never expires
NoExpiry == MaxSessionTime + 1
\* SREM user_sessions:<userId> <id>
SRem(sets, userId, id) ==
  IF sets[userId].expires > now /\ sets[userId].members \ {id} # {}
  THEN [sets EXCEPT ![userId].members = @ \ {id}]
  ELSE [sets EXCEPT ![userId] = NoSet]
\* SADD user_sessions:<userId> <ids>: a new key has no expiry
SAdd(sets, userId, ids) ==
  IF sets[userId].expires > now
  THEN [sets EXCEPT ![userId].members = @ \cup ids]
  ELSE [sets EXCEPT ![userId] = [members |-> ids, expires |-> NoExpiry]]

\* RedisSessionStoreImpl.set(sessionId, data, ttl): SETEX, SADD and EXPIRE in one pipeline
RedisSet(sessionId, userId) ==
  /\ sessionId \in DOMAIN redisKeys => Exists(sessionId) /\ redisKeys[sessionId].userId = userId
  /\ redisKeys' = MapSet(redisKeys, sessionId, [userId |-> userId, expires |-> now + RedisTTL])
  /\ redisSets' = [SAdd(redisSets, userId, {sessionId}) EXCEPT ![userId].expires = now + RedisTTL]
  /\ redisRet' = [op |-> "set", id |-> sessionId, threw |-> FALSE]
  /\ UNCHANGED <<now, sweep, redisFrame>>

\* RedisSessionStoreImpl.delete(sessionId)
RedisDelete(sessionId) ==
  /\ redisKeys' = IF sessionId \in DOMAIN redisKeys
                  THEN [redisKeys EXCEPT ![sessionId].expires = 0]
                  ELSE redisKeys
  /\ redisSets' = IF Exists(sessionId)
                  THEN SRem(redisSets, redisKeys[sessionId].userId, sessionId)
                  ELSE redisSets
  /\ redisRet' = [op |-> "delete", id |-> sessionId, threw |-> FALSE]
  /\ UNCHANGED <<now, sweep, redisFrame>>

\* the commands of getUserSessions that the backend can fail
StoreFailures == {"none", "smembers", "exists", "srem"}

\* RedisSessionStoreImpl.getUserSessions(userId).  exists() turns a failed
\* command into false; a failed SMEMBERS or SREM ends the call with [].
RedisGetUserSessions(userId, failure) ==
  /\ sweep.pc = "idle"
  /\ LET sessions == SMembers(userId)
         validSessions == IF failure = "exists" THEN {}
                          ELSE {id \in sessions : Exists(id)}
         caught == \/ failure = "smembers"
                   \/ failure = "srem" /\ validSessions # sessions
     IN /\ redisSets' = IF caught \/ validSessions = sessions THEN redisSets
                        ELSE IF validSessions = {} THEN [redisSets EXCEPT ![userId] = NoSet]
                        ELSE [redisSets EXCEPT ![userId].members = validSessions]
        /\ redisRet' = [op |-> "getUserSessions", layer |-> "store", userId |-> userId,
                        failure |-> failure, found |-> sessions,
                        ret |-> IF caught THEN {} ELSE validSessions, threw |-> FALSE]
  /\ UNCHANGED <<now, redisKeys, sweep, redisFrame>>

\* the user_sessions:* keys that KEYS returns, in one order
RECURSIVE UsersInOrder(_)
UsersInOrder(users) ==
  IF users = {} THEN <<>>
  ELSE LET u == CHOOSE x \in users : TRUE
       IN <<u>> \o UsersInOrder(users \ {u})

\* the cleanup() moves on to its next user key
NextUserKey(users) ==
  IF users = <<>> THEN [pc |-> "idle"] ELSE [pc |-> "scan", users |-> users]

\* RedisSessionStoreImpl.cleanup(), line 416: KEYS user_sessions:*
CleanupKeys ==
  /\ sweep.pc = "idle"
  /\ sweep' = NextUserKey(UsersInOrder({u \in Users : SMembers(u) # {}}))
  /\ redisRet' = [op |-> "cleanup", threw |-> FALSE]
  /\ UNCHANGED <<now, redisKeys, redisSets, redisFrame>>

\* cleanup(), lines 420-431: SMEMBERS of one user key, EXISTS of its members
CleanupScan ==
  /\ sweep.pc = "scan"
  /\ LET userId == Head(sweep.users)
         sessions == SMembers(userId)
         validSessions == {id \in sessions : Exists(id)}
     IN sweep' = IF validSessions = sessions /\ validSessions # {}
                 THEN NextUserKey(Tail(sweep.users))
                 ELSE [pc |-> "del", users |-> sweep.users, validSessions |-> validSessions]
  /\ UNCHANGED <<now, redisKeys, redisSets, redisRet, redisFrame>>

\* cleanup(), lines 434 and 437: DEL of the user key
CleanupDel ==
  /\ sweep.pc = "del"
  /\ redisSets' = [redisSets EXCEPT ![Head(sweep.users)] = NoSet]
  /\ sweep' = IF sweep.validSessions = {} THEN NextUserKey(Tail(sweep.users))
              ELSE [sweep EXCEPT !.pc = "sadd"]
  /\ UNCHANGED <<now, redisKeys, redisRet, redisFrame>>

\* cleanup(), line 439: SADD of the members found valid
CleanupSadd ==
  /\ sweep.pc = "sadd"
  /\ redisSets' = SAdd(redisSets, Head(sweep.users), sweep.validSessions)
  /\ sweep' = NextUserKey(Tail(sweep.users))
  /\ UNCHANGED <<now, redisKeys, redisRet, redisFrame>>

\* session-manager.ts with useRedis: every operation reads the identifier
\* sessionStore, which the module never declares, before it touches the
\* backend, and so raises a ReferenceError
ManagerOps == {"createSession", "getSession", "updateSession", "destroySession",
               "getUserSessions", "cleanupExpiredSessions"}
PersistentManager(op) ==
  /\ sweep.pc = "idle"
  /\ redisRet' = [op |-> op, layer |-> "manager", threw |-> TRUE]
  /\ UNCHANGED <<now, redisKeys, redisSets, sweep, redisFrame>>

(***************************************************************************)
(* Cookie signer (lib/cookie-signer.ts).                                   *)
(***************************************************************************)
\* Strings are sequences of characters.  Cookie values are drawn from
\* ValueChars; "Q" is a letter that base64 text also uses.
ValueChars == {"a", ".", "Q"}
RECURSIVE StringsUpTo(_)
StringsUpTo(n) ==
  IF n = 0 THEN {<<>>}
  ELSE LET shorter == StringsUpTo(n - 1)
       IN shorter \cup {Append(v, ch) : v \in {w \in shorter : Len(w) = n - 1}, ch \in ValueChars}
Values == StringsUpTo(MaxLen)

\* createHmac('sha256', secret).update(value).digest('base64'): a keyed
\* digest in base64 with its padding.  Distinct values have distinct
\* digests, and no digest repeats its own beginning: it is a leading "Z"
\* and one base64 character per character of the value.  As with a real
\* digest, its last characters can be characters the value itself holds.
DigestChar(ch) == CASE ch = "a" -> "+" [] ch = "." -> "/" [] OTHER -> "Q"
digestBase64(value) == <<"Z">> \o [i \in 1..Len(value) |-> DigestChar(value[i])] \o <<"=">>
\* .replace(/\+/g, '-').replace(/\//g, '_').replace(/=/g, '')
UrlSafe(text) ==
  LET swapped == [i \in 1..Len(text) |->
                    CASE text[i] = "+" -> "-" [] text[i] = "/" -> "_" [] OTHER -> text[i]]
  IN SelectSeq(swapped, LAMBDA ch : ch # "=")
AllChars == ValueChars \cup {"-", "_", "Z"}

\* sign(value); Cannot sign empty value is raised before this is reached
sign(value) == value \o <<".">> \o UrlSafe(digestBase64(value))

\* String.prototype.lastIndexOf, 0 when the character does not occur
LastIndexOf(text, ch) ==
  LET at == {i \in 1..Len(text) : text[i] = ch}
  IN IF at = {} THEN 0 ELSE CHOOSE i \in at : \A j \in at : j <= i
\* String.prototype.split
RECURSIVE Split(_, _)
Split(text, ch) ==
  LET at == {i \in 1..Len(text) : text[i] = ch}
      first == CHOOSE i \in at : \A j \in at : i <= j
  IN IF at = {} THEN <<text>>
     ELSE <<SubSeq(text, 1, first - 1)>> \o Split(SubSeq(text, first + 1, Len(text)), ch)

constantTimeEqual(a, b) ==
  /\ Len(a) = Len(b)
  /\ \A i \in 1..Len(a) : a[i] = b[i]

Rejected == [valid |-> FALSE, value |-> <<>>]
\* this.sign(value).split('.')[1]
expectedSignature(value) == Split(sign(value), ".")[2]
\* verify(signedValue)
verify(signedValue) ==
  LET lastDotIndex == LastIndexOf(signedValue, ".")
      value == SubSeq(signedValue, 1, lastDotIndex - 1)
      signature == SubSeq(signedValue, lastDotIndex + 1, Len(signedValue))
  IN IF signedValue = <<>> \/ lastDotIndex = 0 THEN Rejected
     ELSE IF value = <<>> \/ signature = <<>> THEN Rejected
     ELSE IF ~constantTimeEqual(signature, expectedSignature(value)) THEN Rejected
     ELSE [valid |-> TRUE, value |-> value]

NothingSigned == [value |-> <<>>, text |-> <<>>]
SignInit ==
  /\ signed = NothingSigned
  /\ signRet = [op |-> "none"]

signFrame == <<now, tokVars, sessVars, rateVars>>

\* a sign call
Sign(value) ==
  /\ signed' = IF value = <<>> THEN signed ELSE [value |-> value, text |-> sign(value)]
  /\ signRet' = [op |-> "sign", threw |-> value = <<>>]
  /\ UNCHANGED signFrame

\* the strings a client can send back: the signed string, that string with
\* one character of its signature part changed, or a string of its own making
Flipped(text) ==
  { [text EXCEPT ![i] = ch] : i \in (LastIndexOf(text, ".") + 1)..Len(text), ch \in AllChars } \ {text}
\* a verify call on what the client sent
Verify(signedValue, kind) ==
  /\ signRet' = [op |-> "verify", kind |-> kind, input |-> signedValue, result |-> verify(signedValue)]
  /\ UNCHANGED <<signed, signFrame>>

(***************************************************************************)
(* Rate limiters (lib/rate-limiter.ts, lib/rate-limiter-api.ts).           *)
(***************************************************************************)
\* clock ticks per second: durations are configured in seconds, the
\* limiters compute in milliseconds and report in rounded seconds
TicksPerSecond == 4
\* Math.round(ms / 1000) and Math.ceil(ms / 1000) of a time given in ticks
RoundSeconds(ticks) == (2 * ticks + TicksPerSecond) \div (2 * TicksPerSecond)
CeilSeconds(ticks) == (ticks + TicksPerSecond - 1) \div TicksPerSecond
Max(a, b) == IF a >= b THEN a ELSE b

Identifiers == {"ip:ip1"}
ServiceRules == {"api", "auth"}
\* RATE_LIMIT_CONFIGS of lib/rate-limiter.ts
ServiceConfig(rule) ==
  IF rule = "api"
  THEN [keyPrefix |-> "api", points |-> ApiPoints, duration |-> RateDuration,
        blockDuration |-> RateDuration]
  ELSE [keyPrefix |-> "auth", points |-> AuthPoints, duration |-> RateDuration,
        blockDuration |-> AuthBlockDuration]

\* getLimiter(key, config): the limiter of a key is built once, from the
\* configuration of the first call
getLimiter(key, config) ==
  IF key \in DOMAIN limiters THEN limiters
  ELSE [k \in DOMAIN limiters \cup {key} |->
          IF k = key
          THEN [points |-> config.points, duration |-> config.duration,
                blockDuration |-> config.blockDuration, storage |-> <<>>]
          ELSE limiters[k]]

\* RateLimiterMemory.consume(key, 1) of rate-limiter-flexible: the record of
\* a key counts every consume until it expires; the consume that first
\* exceeds the points replaces its expiry by the block duration
StorageSet(storage, key, value, seconds) ==
  [k \in DOMAIN storage \cup {key} |->
     IF k = key THEN [value |-> value, expiresAt |-> now + seconds * TicksPerSecond]
     ELSE storage[k]]
Consume(limiter, key) ==
  LET live == key \in DOMAIN limiter.storage /\ limiter.storage[key].expiresAt > now
      consumed == IF live THEN limiter.storage[key].value + 1 ELSE 1
      counted == IF live
                 THEN [limiter.storage EXCEPT ![key].value = consumed]
                 ELSE StorageSet(limiter.storage, key, 1, limiter.duration)
      blocks == limiter.blockDuration > 0 /\ consumed <= limiter.points + 1
  IN IF consumed <= limiter.points
     THEN [rejected |-> FALSE, remainingPoints |-> limiter.points - consumed,
           msBeforeNext |-> counted[key].expiresAt - now, storage |-> counted]
     ELSE IF blocks
     THEN [rejected |-> TRUE, remainingPoints |-> 0,
           msBeforeNext |-> limiter.blockDuration * TicksPerSecond,
           storage |-> StorageSet(counted, key, consumed, limiter.blockDuration)]
     ELSE [rejected |-> TRUE, remainingPoints |-> 0,
           msBeforeNext |-> counted[key].expiresAt - now, storage |-> counted]

RateInit ==
  /\ limiters = <<>>
  /\ requestCounts = <<>>
  /\ rateRet = [op |-> "none", nth |-> 0]

rateFrame == <<tokVars, sessVars, signVars>>

\* the place of a call in a run of calls on one counter: 1 for the call on
\* an identifier without consumption, k + 1 for the call that follows call
\* k of the same run inside the window, 0 when the call belongs to no run
NthCall(op, rule, fresh, sameWindow) ==
  IF fresh THEN 1
  ELSE IF rateRet.nth > 0 /\ rateRet.op = op /\ rateRet.rule = rule /\ sameWindow
  THEN rateRet.nth + 1
  ELSE 0

\* applyRateLimit(request, config, identifier) with checkLimit(identifier,
\* config) inside.  backendOk is false when consume raises an error that is
\* no limit result (the Redis store is unreachable).
applyRateLimit(identifier, rule, backendOk) ==
  LET config == ServiceConfig(rule)
      key == config.keyPrefix
      built == getLimiter(key, config)
      limiter == built[key]
      res == Consume(limiter, identifier)
      fresh == identifier \notin DOMAIN limiter.storage
      nth == IF backendOk
             THEN NthCall("checkLimit", rule, fresh,
                          rateRet.nth > 0 /\ now < rateRet.since + config.duration * TicksPerSecond)
             ELSE 0
      result == IF ~backendOk
                THEN [allowed |-> TRUE, limit |-> config.points, used |-> 0,
                      remaining |-> config.points,
                      resetTime |-> now + config.duration * TicksPerSecond,
                      retryAfter |-> NoClaim]
                ELSE IF res.rejected
                THEN [allowed |-> FALSE, limit |-> config.points,
                      used |-> config.points - res.remainingPoints,
                      remaining |-> res.remainingPoints,
                      resetTime |-> now + res.msBeforeNext,
                      retryAfter |-> RoundSeconds(res.msBeforeNext)]
                ELSE [allowed |-> TRUE, limit |-> config.points,
                      used |-> config.points - res.remainingPoints,
                      remaining |-> res.remainingPoints,
                      resetTime |-> now + res.msBeforeNext,
                      retryAfter |-> NoClaim]
  IN /\ requestCounts = <<>>
     /\ ~fresh => limiter.storage[identifier].value <= limiter.points + MaxOver
     /\ limiters' = IF backendOk THEN [built EXCEPT ![key].storage = res.storage] ELSE built
     /\ rateRet' = [op |-> "checkLimit", rule |-> rule, failed |-> ~backendOk,
                    allowed |-> result.allowed, remaining |-> result.remaining,
                    retryAfter |-> result.retryAfter, resetTime |-> result.resetTime,
                    status |-> IF result.allowed THEN 200 ELSE 429,
                    nth |-> nth, since |-> IF nth = 1 THEN now ELSE IF nth = 0 THEN 0 ELSE rateRet.since]
     /\ UNCHANGED <<now, requestCounts, rateFrame>>

ClientAddresses == {"ip1"}
ApiRules == {"api", "auth", "lenient"}
\* RATE_LIMIT_CONFIGS of lib/rate-limiter-api.ts, and a configuration that
\* sets skipOnError
ApiConfig(rule) ==
  [maxRequests |-> IF rule = "auth" THEN AuthPoints ELSE ApiPoints,
   windowMs |-> RateDuration * TicksPerSecond,
   skipOnError |-> rule = "lenient"]

Exceeded_AtLimit(count, maxRequests) == count >= maxRequests
Exceeded(count, maxRequests) == count > maxRequests

\* the try block of checkRateLimit on a store of counts: the store it
\* leaves and the entry it has counted the request in
CountRequest(counts, ip, rule) ==
  LET config == ApiConfig(rule)
      windowStart == now - (now % config.windowMs)
      key == <<ip, windowStart>>
      cutoff == now - config.windowMs
      kept == {k \in DOMAIN counts : ~(counts[k].resetTime < cutoff)}
      before == IF key \in kept THEN counts[key]
                ELSE [count |-> 0, resetTime |-> now + config.windowMs]
      entry == [before EXCEPT !.count = @ + 1]
  IN [before |-> before, entry |-> entry,
      counts |-> [k \in kept \cup {key} |-> IF k = key THEN entry ELSE counts[k]]]

\* checkRateLimit(request, config).  fails: the try block raises.
checkRateLimit(ip, rule, fails) ==
  LET config == ApiConfig(rule)
      windowStart == now - (now % config.windowMs)
      counted == CountRequest(requestCounts, ip, rule)
      before == counted.before
      entry == counted.entry
      fresh == \A k \in DOMAIN requestCounts : k[1] # ip
      nth == IF fails THEN 0
             ELSE NthCall("checkRateLimit", rule, fresh,
                          rateRet.nth > 0 /\ rateRet.since - (rateRet.since % config.windowMs) = windowStart)
      exceeded == Exceeded(entry.count, config.maxRequests)
  IN /\ limiters = <<>>
     /\ before.count <= config.maxRequests + MaxOver
     /\ requestCounts' = IF fails THEN requestCounts ELSE counted.counts
     /\ rateRet' =
          IF fails
          THEN [op |-> "checkRateLimit", rule |-> rule, failed |-> TRUE,
                allowed |-> config.skipOnError,
                remaining |-> IF config.skipOnError THEN config.maxRequests ELSE 0,
                retryAfter |-> NoClaim, resetTime |-> now + config.windowMs,
                status |-> IF config.skipOnError THEN 200 ELSE 500,
                nth |-> 0, since |-> 0]
          ELSE [op |-> "checkRateLimit", rule |-> rule, failed |-> FALSE,
                allowed |-> ~exceeded,
                remaining |-> IF exceeded THEN 0 ELSE Max(0, config.maxRequests - entry.count),
                retryAfter |-> IF exceeded THEN CeilSeconds(entry.resetTime - now) ELSE NoClaim,
                resetTime |-> entry.resetTime,
                status |-> IF exceeded THEN 429 ELSE 200,
                nth |-> nth, since |-> IF nth = 1 THEN now ELSE IF nth = 0 THEN 0 ELSE rateRet.since]
     /\ UNCHANGED <<now, limiters, rateFrame>>

\* the clock advances; the timers of the in-memory limiters delete the
\* records that have expired
RateTick ==
  /\ now < MaxRateTime
  /\ now' = now + 1
  /\ limiters' = [k \in DOMAIN limiters |->
                    [limiters[k] EXCEPT !.storage =
                       [id \in {i \in DOMAIN @ : @[i].expiresAt > now + 1} |-> @[id]]]]
  /\ UNCHANGED <<requestCounts, rateRet, rateFrame>>

(***************************************************************************)
(* The identifier of a request (lib/rate-limiter.ts).                      *)
(***************************************************************************)
\* A header is absent or carries a text; Headers.get returns the text
\* without leading and trailing white space.
NoHeader == [present |-> FALSE, text |-> <<>>]
HeaderOf(text) == [present |-> TRUE, text |-> text]
\* a value that an if of JavaScript takes as true: a non-empty string
Truthy(header) == header.present /\ header.text # <<>>

HeaderChars == {"a", ",", " "}
RECURSIVE TextsUpTo(_)
TextsUpTo(n) ==
  IF n = 0 THEN {<<>>}
  ELSE LET shorter == TextsUpTo(n - 1)
       IN shorter \cup {Append(v, ch) : v \in {w \in shorter : Len(w) = n - 1}, ch \in HeaderChars}
Normalised(text) == text = <<>> \/ (text[1] # " " /\ text[Len(text)] # " ")
ForwardedValues ==
  {NoHeader} \cup {HeaderOf(text) : text \in {t \in TextsUpTo(MaxHeaderLen) : Normalised(t)}}
AddressHeaders(address) == {NoHeader, HeaderOf(<<address>>)}
Unknown == <<"unknown">>

\* String.prototype.trim
RECURSIVE Trim(_)
Trim(text) ==
  IF text = <<>> THEN text
  ELSE IF Head(text) = " " THEN Trim(Tail(text))
  ELSE IF text[Len(text)] = " " THEN Trim(SubSeq(text, 1, Len(text) - 1))
  ELSE text

Requests ==
  [forwarded : ForwardedValues, realIP : AddressHeaders("r"),
   clientIP : AddressHeaders("c"), ip : AddressHeaders("d")]

getClientIP_LastHop(request) ==
  IF Truthy(request.forwarded)
  THEN LET hops == Split(request.forwarded.text, ",") IN Trim(hops[Len(hops)])
  ELSE IF Truthy(request.realIP) THEN request.realIP.text
  ELSE IF Truthy(request.clientIP) THEN request.clientIP.text
  ELSE IF Truthy(request.ip) THEN request.ip.text
  ELSE Unknown
\* getClientIP(request)
getClientIP(request) ==
  IF Truthy(request.forwarded) THEN Trim(Split(request.forwarded.text, ",")[1])
  ELSE IF Truthy(request.realIP) THEN request.realIP.text
  ELSE IF Truthy(request.clientIP) THEN request.clientIP.text
  ELSE IF Truthy(request.ip) THEN request.ip.text
  ELSE Unknown

UserIdentifier(id) == [kind |-> "user", id |-> id, addr |-> <<>>]
IpIdentifier(addr) == [kind |-> "ip", id |-> None, addr |-> addr]

\* getUserIdentifier(request), with the getInfo call it makes.  importFails:
\* the import of the resolver raises, which the catch absorbs.
getUserIdentifier(request, reqCookie, failure, generated, importFails) ==
  /\ IF importFails
     THEN /\ UNCHANGED <<sessionStore, userSessions, cookie, sessRet>>
          /\ rateRet' = [op |-> "getUserIdentifier", nth |-> 0, request |-> request,
                         authenticated |-> FALSE,
                         identifier |-> IpIdentifier(getClientIP(request))]
     ELSE /\ getInfoEffect(reqCookie, failure, generated)
          /\ rateRet' = [op |-> "getUserIdentifier", nth |-> 0, request |-> request,
                         authenticated |-> sessRet'.info.isAuthenticated,
                         identifier |->
                           IF sessRet'.info.isAuthenticated /\ sessRet'.info.userInfo.id # None
                           THEN UserIdentifier(sessRet'.info.userInfo.id)
                           ELSE IpIdentifier(getClientIP(request))]
  /\ UNCHANGED <<now, nextSessionId, tokVars, signVars, limiters, requestCounts, redisVars>>


(***************************************************************************)
(* Specifications.                                                         *)
(***************************************************************************)
InitTok ==
  /\ now = 0
  /\ \E t \in TokenUniverse : TokInit({t})
  /\ SessInit
  /\ SignInit
  /\ RateInit

NextTok ==
  \/ Tick(MaxTime)
  \/ \E c \in Calls, t \in inPlay, ip \in ClientIps : ValidateBegin(c, t, ip)
  \/ \E c \in Calls : ValidateDecode(c)
  \/ \E c \in Calls, net \in ValidateNetworks : ValidateSignature(c, net)
  \/ \E c \in Calls, graphOk \in BOOLEAN : ValidateGraph(c, graphOk)
  \/ \E t \in inPlay : blacklistToken(t)
  \/ \E t \in inPlay : removeFromBlacklist(t)

SpecTok == InitTok /\ [][NextTok]_vars

\* the key resolver on its own, over every key id and every network
InitKeys ==
  /\ now = 0
  /\ TokInit({})
  /\ SessInit
  /\ SignInit
  /\ RateInit

NextKeys ==
  \/ \E kid \in KeyIds, net \in Networks : ResolveKey(kid, net)
  \/ clearKeysCache

SpecKeys == InitKeys /\ [][NextKeys]_vars

\* the claim check on its own, over every payload, at every time
InitClaims ==
  /\ now = 0
  /\ \E payload \in Payloads, clientId \in ClientIdSettings :
       inPlay = {[payload |-> payload, clientId |-> clientId]}
  /\ validationCache = <<>>
  /\ blacklistCache = <<>>
  /\ keysCache = {}
  /\ rateLimiter = [ip \in ClientIps \ {None} |-> NoRate]
  /\ call = [c \in Calls |-> IdleCall]
  /\ lastDone = NoCall
  /\ SessInit
  /\ SignInit
  /\ RateInit

NextClaims ==
  \/ Tick(MaxTime)
  \/ \E input \in inPlay : CheckClaims(input.payload, input.clientId)

SpecClaims == InitClaims /\ [][NextClaims]_vars

InitRate ==
  /\ now = 0
  /\ TokInit({})
  /\ SessInit
  /\ SignInit
  /\ RateInit

NextRate ==
  \/ RateTick
  \/ \E id \in Identifiers, rule \in ServiceRules, backendOk \in BOOLEAN :
        applyRateLimit(id, rule, backendOk)
  \/ \E ip \in ClientAddresses, rule \in ApiRules, fails \in BOOLEAN :
        checkRateLimit(ip, rule, fails)

SpecRate == InitRate /\ [][NextRate]_vars

InitSign ==
  /\ now = 0
  /\ TokInit({})
  /\ SessInit
  /\ SignInit
  /\ RateInit

NextSign ==
  \/ \E value \in Values : Sign(value)
  \/ signed # NothingSigned /\ Verify(signed.text, "signed")
  \/ \E text \in Flipped(signed.text) : signed # NothingSigned /\ Verify(text, "flipped")
  \/ \E text \in StringsUpTo(MaxLen + 2) : Verify(text, "made")

SpecSign == InitSign /\ [][NextSign]_vars

InitSess ==
  /\ now = 0
  /\ TokInit({})
  /\ SessInit
  /\ SignInit
  /\ RateInit

NextSess ==
  \/ Tick(MaxSessionTime)
  \/ \E u \in Users, td \in CreateInputs, inReq \in BOOLEAN :
        /\ u = "u2" => nextSessionId > 0
        /\ createSession(u, td, inReq)
  \/ \E id \in SessionIds : getSession(id, TRUE)
  \/ \E id \in SessionIds, td \in UpdateInputs, inReq \in BOOLEAN :
        /\ Cardinality({k \in DOMAIN sessionStore : sessionStore[k].accessToken # "at1"} \cup {id})
             <= MaxUpdated
        /\ updateSession(id, td, inReq)
  \/ \E id \in SessionIds, inReq \in BOOLEAN : destroySession(id, inReq)
  \/ \E inReq \in BOOLEAN : cleanupExpiredSessions(inReq)

SpecSess == InitSess /\ [][NextSess]_vars

\* the persistent store under its cleanup(), with sessions written and
\* deleted between the cleanup's commands
NextSweep ==
  \/ Tick(MaxSessionTime)
  \/ \E id \in SessionIds : RedisSet(id, "u1")
  \/ \E id \in SessionIds : RedisDelete(id)
  \/ CleanupKeys
  \/ CleanupScan
  \/ CleanupDel
  \/ CleanupSadd

SpecSweep == InitSess /\ [][NextSweep]_vars

\* the persistent store and the session manager over it, call by call
NextStore ==
  \/ Tick(MaxSessionTime)
  \/ \E id \in SessionIds, u \in Users : RedisSet(id, u)
  \/ \E id \in SessionIds : RedisDelete(id)
  \/ \E u \in Users, failure \in StoreFailures : RedisGetUserSessions(u, failure)
  \/ \E op \in ManagerOps : PersistentManager(op)

SpecStore == InitSess /\ [][NextStore]_vars

\* the session manager over the local-memory backend and over the
\* persistent backend, the same calls made to both
NextBackends ==
  \/ Tick(MaxSessionTime)
  \/ \E td \in {t \in CreateInputs : ~GetTimeThrows(t)} :
        /\ nextSessionId < MAX_CONCURRENT_SESSIONS
        /\ createSession("u1", td, TRUE)
  \/ \E id \in SessionIds : getSession(id, TRUE)
  \/ \E id \in SessionIds : destroySession(id, TRUE)
  \/ \E op \in ManagerOps : PersistentManager(op)

SpecBackends == InitSess /\ [][NextBackends]_vars

\* a client that logs in and then calls the API routes with the cookie the
\* server set last
NextRoute ==
  \/ Tick(MaxSessionTime)
  \/ \E td \in {t \in CreateInputs : ~GetTimeThrows(t)} :
        /\ nextSessionId < MAX_CONCURRENT_SESSIONS
        /\ createSession("u1", td, TRUE)
  \/ \E id \in SessionIds : destroySession(id, TRUE)
  \/ \E failure \in {"none", "store"}, g \in AnonIds, upstreamOk \in BOOLEAN :
        conversationsGET(cookie, failure, g, upstreamOk)

SpecRoute == InitSess /\ [][NextRoute]_vars

\* a signed-in client that asks for its access token again and again
NextAccess ==
  \/ Tick(MaxSessionTime)
  \/ \E sessionFetch \in FetchOutcomes, silent \in BOOLEAN, popup \in BOOLEAN,
        posting \in FetchOutcomes, tokenData \in CreateInputs :
        getAccessToken(sessionFetch, silent, popup, posting, tokenData)
  \/ \E id \in SessionIds : destroySession(id, TRUE)

SpecAccess == InitSess /\ [][NextAccess]_vars

\* the identity resolver over sessions that requests create, refresh and destroy
NextInfo ==
  \/ Tick(MaxSessionTime)
  \/ \E td \in CreateInputs : createSession("u1", td, TRUE)
  \/ \E id \in SessionIds, td \in UpdateInputs :
        /\ Cardinality({k \in DOMAIN sessionStore : sessionStore[k].accessToken # "at1"} \cup {id}) <= MaxUpdated
        /\ updateSession(id, td, TRUE)
  \/ \E id \in SessionIds : destroySession(id, TRUE)
  \/ \E c \in RequestCookies, failure \in Failures, g \in AnonIds : getInfo(c, failure, g)

SpecInfo == InitSess /\ [][NextInfo]_vars

\* the identifier of requests with and without the cookie of a live session
NextIdent ==
  \/ \E td \in {t \in CreateInputs : ~GetTimeThrows(t)} :
        /\ nextSessionId < 1
        /\ createSession("u1", td, TRUE)
  \/ \E request \in Requests, c \in {cookie, NoCookie}, failure \in {"none", "store"},
        g \in AnonIds, importFails \in BOOLEAN :
        getUserIdentifier(request, c, failure, g, importFails)

SpecIdent == InitSess /\ [][NextIdent]_vars


\* the token a history record is about
TokenOf(id) == CHOOSE t \in TokenUniverse : t.id = id
Returned == lastDone.tok # None

(***************************************************************************)
(* C1.  Once blacklist(t) has completed, every validate(t) that starts     *)
(* while the blacklist entry is present returns valid=false, also when a   *)
(* valid=true verdict was cached before the blacklist call.                *)
(***************************************************************************)
C1_BlacklistedNeverValid ==
  Returned /\ lastDone.blk => ~lastDone.ret.valid

(***************************************************************************)
(* C2.  After validate(t) returned valid=true, an immediately following    *)
(* validate(t) (nothing else returned or touched the blacklist in between, *)
(* the verdict is within its 5-minute TTL, the caller IP within budget)    *)
(* returns the identical verdict, and returns it from the verdict cache    *)
(* in its first step, without a signature, claim or external check.        *)
(***************************************************************************)
C2_RevalidationIdentical ==
  [][\A c \in Calls, t \in inPlay, ip \in ClientIps :
       ( /\ ValidateBegin(c, t, ip)
         /\ Returned
         /\ lastDone.tok = t.id
         /\ lastDone.ret.valid
         /\ now <= lastDone.since + VerdictTTL
         /\ (ip # None => RateGranted(rateLimiter[ip])) )
       => ( /\ call'[c].pc = "idle"
            /\ lastDone'.hit
            /\ lastDone'.ret = lastDone.ret )]_vars

\* a verdict valid=true has been returned and then returned again from the cache
C2_Witness ==
  /\ Returned
  /\ lastDone.hit
  /\ lastDone.ret.valid
  /\ lastDone.ret.userInfo.id = "o1"

(***************************************************************************)
(* C3.  The token's stable subject claim: oid when present, otherwise sub. *)
(***************************************************************************)
StableSubject(t) == IF t.oid # Absent THEN t.oid ELSE t.sub

\* the call that returned last ran the pipeline for a caller within budget,
\* on a token that was not blacklisted, and obtained the signing key
RanPipelineWithKey ==
  /\ Returned
  /\ ~lastDone.hit
  /\ ~lastDone.blk
  /\ lastDone.ret.error # "Rate limit exceeded"
  /\ lastDone.keyOk

\* structurally valid, signed with the pinned algorithm by an accepted
\* issuer, exp after `time`, aud equal to the configured client id
SignedUnexpiredForClient(t, time) ==
  /\ t.wellFormed
  /\ t.kid # Absent
  /\ t.alg = "RS256"
  /\ t.sigOK
  /\ t.iss = "accepted"
  /\ t.exp # NoClaim
  /\ t.exp > time
  /\ t.aud = "client"

(***************************************************************************)
(* C3 as claimed.  For a structurally valid token signed with a resolvable *)
(* key by an accepted issuer, with exp in the future and aud equal to the  *)
(* client id, validate returns valid=true and userInfo.id is the stable    *)
(* subject claim.  (Read for a pipeline run: caller within budget, token   *)
(* not blacklisted, nothing cached, key obtained, subject claim present.)  *)
(***************************************************************************)
C3_AsClaimed ==
  ( /\ RanPipelineWithKey
    /\ SignedUnexpiredForClient(TokenOf(lastDone.tok), lastDone.at)
    /\ (TokenOf(lastDone.tok).oid # Absent \/ TokenOf(lastDone.tok).sub # Absent) )
  => ( /\ lastDone.ret.valid
       /\ lastDone.ret.userInfo.id = StableSubject(TokenOf(lastDone.tok)) )

(***************************************************************************)
(* C3 amended.  As claimed, for a token that in addition carries no nbf    *)
(* later than now and no iat more than 300 s later than now, and that the  *)
(* user-info endpoint does not reject: validate returns valid=true and     *)
(* userInfo.id is oid when present, otherwise sub.                         *)
(***************************************************************************)
C3_ValidTokenAccepted ==
  ( /\ RanPipelineWithKey
    /\ lastDone.ret.error # "Microsoft Graph validation failed"
    /\ SignedUnexpiredForClient(TokenOf(lastDone.tok), lastDone.at)
    /\ (TokenOf(lastDone.tok).oid # Absent \/ TokenOf(lastDone.tok).sub # Absent)
    /\ (TokenOf(lastDone.tok).nbf # NoClaim => TokenOf(lastDone.tok).nbf <= lastDone.at)
    /\ (TokenOf(lastDone.tok).iat # NoClaim => TokenOf(lastDone.tok).iat <= lastDone.at + IatSkew) )
  => ( /\ lastDone.ret.valid
       /\ lastDone.ret.userInfo.id = StableSubject(TokenOf(lastDone.tok)) )

\* a pipeline run accepted a token that carries sub but no oid
C3_Witness ==
  /\ RanPipelineWithKey
  /\ lastDone.tok = "subonly"
  /\ lastDone.ret.valid
  /\ lastDone.ret.userInfo.id = "s1"

\* the sessions of a user that the store holds
SessionsOf(store, userId) == {id \in DOMAIN store : store[id].userId = userId}

(***************************************************************************)
(* C4.  A getSession(id) call made at a time now with tokenExpiry <= now   *)
(* returns null, and after the call the record is absent from the session  *)
(* store and from its user's session index.                                *)
(***************************************************************************)
C4_ExpiredGetRemoves ==
  [][\A id \in SessionIds :
       ( /\ sessRet'.op = "get"
         /\ getSession(id, TRUE)
         /\ HasSession(sessionStore, id)
         /\ sessionStore[id].tokenExpiry <= now )
       => ( /\ ~sessRet'.found
            /\ ~HasSession(sessionStore', id)
            /\ id \notin SetOf(IndexAt(userSessions', sessionStore[id].userId)) )]_vars

LiveAt(session, t) ==
  /\ session.tokenExpiry > t
  /\ t - session.lastActivity < SESSION_TIMEOUT

\* an identity of an unauthenticated caller with a non-empty sessionId and user
AnonymousIdentity(info) ==
  /\ ~info.isAuthenticated
  /\ info.sessionId.kind \in {"generated", "cookie"}
  /\ info.user = <<"anon", info.sessionId>>

(***************************************************************************)
(* C10.  getInfo never throws; when the session cookie is missing, cannot  *)
(* be decrypted, or names an absent or expired session, or when the        *)
(* session store raises, it returns an anonymous identity with             *)
(* isAuthenticated=false and a non-empty sessionId and user.               *)
(***************************************************************************)
C10_AnonymousFallback ==
  [][\A c \in RequestCookies, failure \in Failures, g \in AnonIds :
       sessRet'.op = "getInfo" /\ getInfo(c, failure, g)
       => /\ ~sessRet'.threw
          /\ ( \/ c.kind = "missing"
               \/ DecryptThrows(c)
               \/ failure = "store"
               \/ ~HasSession(sessionStore, c.sessionId)
               \/ ~LiveAt(sessionStore[c.sessionId], now) )
               => AnonymousIdentity(sessRet'.info)]_vars

\* the same with a session counted as expired only when its expiry instant
\* or its idle timeout lies strictly in the past
C10_ApartFromBoundary ==
  [][\A c \in RequestCookies, failure \in Failures, g \in AnonIds :
       sessRet'.op = "getInfo" /\ getInfo(c, failure, g)
       => /\ ~sessRet'.threw
          /\ ( \/ c.kind = "missing"
               \/ DecryptThrows(c)
               \/ failure = "store"
               \/ ~HasSession(sessionStore, c.sessionId)
               \/ sessionStore[c.sessionId].tokenExpiry < now
               \/ now - sessionStore[c.sessionId].lastActivity > SESSION_TIMEOUT )
               => AnonymousIdentity(sessRet'.info)]_vars

(***************************************************************************)
(* C7.  verify(sign(v)) returns v for every non-empty v, whatever its      *)
(* characters; and verify returns invalid for a signed string in which one *)
(* character of the signature part has been changed.                       *)
(***************************************************************************)
C7_SignVerifyRoundTrip ==
  signRet.op = "verify" =>
    /\ signRet.kind = "signed" =>
         signRet.result.valid /\ signRet.result.value = signed.value
    /\ signRet.kind = "flipped" => ~signRet.result.valid

\* the two halves of C7 on values without a ".": both hold there
C7_DotFreeValues ==
  signRet.op = "verify" /\ "." \notin SetOf(signed.value) =>
    /\ signRet.kind = "signed" =>
         signRet.result.valid /\ signRet.result.value = signed.value
    /\ signRet.kind = "flipped" => ~signRet.result.valid

\* the points of the rule of the call that returned last
PointsOfLast ==
  IF rateRet.op = "checkLimit" THEN ServiceConfig(rateRet.rule).points
  ELSE ApiConfig(rateRet.rule).maxRequests

C9_FailOpen ==
  rateRet.op # "none" /\ rateRet.failed =>
    rateRet.allowed /\ rateRet.status = 200

(***************************************************************************)
(* C11.  A request without a session cookie is resolved to an anonymous    *)
(* identity whose sessionId is newly generated and differs from every      *)
(* sessionId returned to an earlier request (here: to the request          *)
(* resolved directly before it).                                           *)
(***************************************************************************)
C11_FreshAnonymousId ==
  [][\A failure \in Failures, g \in AnonIds :
       sessRet'.op = "getInfo" /\ getInfo(NoCookie, failure, g)
       => /\ AnonymousIdentity(sessRet'.info)
          /\ sessRet'.info.sessionId.kind = "generated"
          /\ sessRet.op = "getInfo" => sessRet'.info.sessionId # sessRet.info.sessionId]_vars

(***************************************************************************)
(* C12.  A request whose session cookie is tampered with, cannot be        *)
(* decrypted, or names an absent or expired session is resolved exactly    *)
(* like a request without a cookie: isAuthenticated=false and a freshly    *)
(* generated sessionId that is not taken from the value the client sent.   *)
(***************************************************************************)
C12_BadCookieLikeNoCookie ==
  [][\A c \in RequestCookies \ {NoCookie}, failure \in Failures, g \in AnonIds :
       /\ sessRet'.op = "getInfo"
       /\ getInfo(c, failure, g)
       /\ \/ DecryptThrows(c)
          \/ ~HasSession(sessionStore, c.sessionId)
          \/ ~LiveAt(sessionStore[c.sessionId], now)
       => sessRet'.info = getSessionBasedInfo(NoCookie, g)]_vars

(***************************************************************************)
(* C13.  A getSession(id) call made when now - lastActivity >= idleTimeout *)
(* returns null and deletes the record, even if tokenExpiry is still in    *)
(* the future; getSession returns a record only when                       *)
(* now - lastActivity < idleTimeout.                                       *)
(***************************************************************************)
C13_IdleGetRemoves ==
  [][\A id \in SessionIds :
       ( /\ sessRet'.op = "get"
         /\ getSession(id, TRUE)
         /\ HasSession(sessionStore, id) )
       => /\ now - sessionStore[id].lastActivity >= SESSION_TIMEOUT
               => /\ ~sessRet'.found
                  /\ ~HasSession(sessionStore', id)
                  /\ id \notin SetOf(IndexAt(userSessions', sessionStore[id].userId))
          /\ sessRet'.found => now - sessionStore[id].lastActivity < SESSION_TIMEOUT]_vars

(***************************************************************************)
(* C14.  A successful getSession(id) at time t sets the record's           *)
(* lastActivity to t and stores it again, with every other field, every    *)
(* other record and the index unchanged; and a getSession on a record      *)
(* with tokenExpiry > now that was last active less than the idle timeout  *)
(* ago is successful, so such reads keep the session live.                 *)
(***************************************************************************)
C14_SlidingExpiration ==
  [][\A id \in SessionIds :
       ( /\ sessRet'.op = "get"
         /\ getSession(id, TRUE) )
       => /\ sessRet'.found =>
               /\ HasSession(sessionStore, id)
               /\ DOMAIN sessionStore' = DOMAIN sessionStore
               /\ \A k \in DOMAIN sessionStore \ {id} : sessionStore'[k] = sessionStore[k]
               /\ sessionStore'[id].lastActivity = now
               /\ \A f \in DOMAIN sessionStore[id] \ {"lastActivity"} :
                    sessionStore'[id][f] = sessionStore[id][f]
               /\ userSessions' = userSessions
          /\ ( /\ HasSession(sessionStore, id)
               /\ sessionStore[id].tokenExpiry > now
               /\ now - sessionStore[id].lastActivity < SESSION_TIMEOUT )
               => sessRet'.found]_vars

\* a read has just kept a session live that was created more than the idle
\* timeout ago
C14_Witness ==
  /\ sessRet.op = "get"
  /\ sessRet.found
  /\ \E id \in DOMAIN sessionStore :
       /\ sessionStore[id].lastActivity = now
       /\ now - sessionStore[id].createdAt > SESSION_TIMEOUT
       /\ sessionStore[id].tokenExpiry > now

LimiterStep ==
  /\ rateRet'.op \in {"checkLimit", "checkRateLimit"}
  /\ ~rateRet'.failed
  /\ \/ \E id \in Identifiers, rule \in ServiceRules : applyRateLimit(id, rule, TRUE)
     \/ \E ip \in ClientAddresses, rule \in ApiRules : checkRateLimit(ip, rule, FALSE)

(***************************************************************************)
(* C16.  Once a consume has returned allowed=false with reset time R, a    *)
(* further consume for the same identifier and rule made before R is       *)
(* denied as well, and one made at or after R is allowed again (here: the  *)
(* consume that directly follows the denial).                              *)
(***************************************************************************)
C16_DeniedUntilReset ==
  [][( /\ LimiterStep
       /\ rateRet.op = rateRet'.op
       /\ ~rateRet.failed
       /\ rateRet.rule = rateRet'.rule
       /\ ~rateRet.allowed )
     => /\ now < rateRet.resetTime => ~rateRet'.allowed
        /\ now >= rateRet.resetTime => rateRet'.allowed]_vars

\* the same for the limiter service alone
C16_ServiceDeniedUntilReset ==
  [][( /\ LimiterStep
       /\ rateRet'.op = "checkLimit"
       /\ rateRet.op = rateRet'.op
       /\ ~rateRet.failed
       /\ rateRet.rule = rateRet'.rule
       /\ ~rateRet.allowed )
     => /\ now < rateRet.resetTime => ~rateRet'.allowed
        /\ now >= rateRet.resetTime => rateRet'.allowed]_vars

\* what a request of an address observes under a rule of checkRateLimit on a
\* store of counts: the outcome and the remaining value
ObservedUnder(counts, ip, rule) ==
  LET config == ApiConfig(rule)
      entry == CountRequest(counts, ip, rule).entry
  IN [allowed |-> ~Exceeded(entry.count, config.maxRequests),
      remaining |-> Max(0, config.maxRequests - entry.count)]

(***************************************************************************)
(* C17.  Counters are kept per (identifier, rule): a consume under one     *)
(* rule never changes the count, the remaining value or the allow/deny     *)
(* outcome that the same identifier observes under a different rule.       *)
(***************************************************************************)
C17_RulesIndependent ==
  [][\A ip \in ClientAddresses, rule \in ApiRules :
       ( /\ rateRet'.op = "checkRateLimit"
         /\ checkRateLimit(ip, rule, FALSE) )
       => \A other \in ApiRules \ {rule} :
            ObservedUnder(requestCounts', ip, other) = ObservedUnder(requestCounts, ip, other)]_vars

\* the limiter service keeps the rules apart: a consume under one rule
\* leaves the limiter of every other rule as it was
C17_ServiceRulesApart ==
  [][\A id \in Identifiers, rule \in ServiceRules, backendOk \in BOOLEAN :
       ( /\ rateRet'.op = "checkLimit"
         /\ applyRateLimit(id, rule, backendOk) )
       => \A other \in DOMAIN limiters \ {ServiceConfig(rule).keyPrefix} :
            /\ other \in DOMAIN limiters'
            /\ limiters'[other] = limiters[other]]_vars

\* the address the claim names for a request: the first hop of the
\* forwarded-for chain when that header is there, else the direct address,
\* else "unknown"
ClaimedAddress(request) ==
  IF Truthy(request.forwarded) THEN Trim(Split(request.forwarded.text, ",")[1])
  ELSE IF Truthy(request.ip) THEN request.ip.text
  ELSE Unknown

(***************************************************************************)
(* C18 as claimed.  The identifier of a request is user:<id> whenever the  *)
(* request resolves to an authenticated identity; otherwise it is the      *)
(* client IP: the first hop of the forwarded-for chain when that header is *)
(* present, else the direct address, and "unknown" when there is none.     *)
(***************************************************************************)
C18_AsClaimed ==
  rateRet.op = "getUserIdentifier" =>
    IF rateRet.authenticated
    THEN rateRet.identifier.kind = "user"
    ELSE rateRet.identifier = IpIdentifier(ClaimedAddress(rateRet.request))

(***************************************************************************)
(* C18.  The identifier is user:<id> with the id of the resolved identity  *)
(* whenever the request resolves to an authenticated identity; otherwise   *)
(* it is ip:<address>, the address being the first hop, trimmed, of a      *)
(* non-empty x-forwarded-for, else x-real-ip, else x-client-ip, else the   *)
(* direct address, else "unknown".                                         *)
(***************************************************************************)
C18_IdentifierPrecedence ==
  rateRet.op = "getUserIdentifier" =>
    LET request == rateRet.request
        hop == Trim(Split(request.forwarded.text, ",")[1])
        address == CASE Truthy(request.forwarded) -> hop
                     [] ~Truthy(request.forwarded) /\ Truthy(request.realIP) -> <<"r">>
                     [] ~Truthy(request.forwarded) /\ ~Truthy(request.realIP)
                          /\ Truthy(request.clientIP) -> <<"c">>
                     [] ~Truthy(request.forwarded) /\ ~Truthy(request.realIP)
                          /\ ~Truthy(request.clientIP) /\ Truthy(request.ip) -> <<"d">>
                     [] OTHER -> Unknown
    IN IF rateRet.authenticated
       THEN /\ rateRet.identifier.kind = "user"
            /\ sessRet.op = "getInfo"
            /\ rateRet.identifier.id = sessRet.info.userInfo.id
       ELSE /\ rateRet.identifier.kind = "ip"
            /\ rateRet.identifier.addr = address

\* an unauthenticated request with a forwarded-for chain of two hops has
\* been identified by its first hop although other address headers are set
C18_Witness ==
  /\ rateRet.op = "getUserIdentifier"
  /\ ~rateRet.authenticated
  /\ rateRet.request.forwarded.text = <<"a", ",", "a">>
  /\ Truthy(rateRet.request.realIP)
  /\ rateRet.identifier = IpIdentifier(<<"a">>)

\* the access and refresh tokens that sessions hold
TokenValues ==
  {td.accessToken : td \in CreateInputs \cup UpdateInputs}
    \cup {td.refreshToken : td \in CreateInputs \cup UpdateInputs}

(***************************************************************************)
(* C19.  Every session cookie written by createSession or updateSession    *)
(* carries only {sessionId, userId, createdAt}: in no reachable state does *)
(* the cookie hold the access token or the refresh token.                  *)
(***************************************************************************)
C19_CookieWithoutTokens ==
  cookie.kind = "enc" =>
    /\ DOMAIN cookie = {"kind", "sessionId", "userId", "createdAt"}
    /\ cookie.userId \notin TokenValues \ {None}
    /\ cookie.sessionId \in 1..nextSessionId
    /\ cookie.createdAt \in 0..now

\* updateSession has just written the cookie of a session that holds a
\* refreshed access token and a refresh token
C19_Witness ==
  /\ sessRet.op = "update"
  /\ ~sessRet.threw
  /\ cookie.kind = "enc"
  /\ HasSession(sessionStore, cookie.sessionId)
  /\ sessionStore[cookie.sessionId].accessToken = "at2"
  /\ sessionStore[cookie.sessionId].refreshToken = "rt2"

\* the text of a cookie value: the ciphertext of the Token Cipher is base64
\* text, which has no "."
CookieText(c) ==
  IF c.kind = "enc" THEN <<"Q", "a", "Q">> ELSE <<>>

(***************************************************************************)
(* C20.  Every session cookie issued by createSession or updateSession is  *)
(* signed by the Cookie Signer as well as encrypted, and the session id is *)
(* read from a request cookie only if the cookie's signature verifies.     *)
(***************************************************************************)
C20_CookieSigned ==
  /\ sessRet.op \in {"create", "update"} /\ ~sessRet.threw /\ cookie.kind = "enc"
       => verify(CookieText(cookie)).valid
  /\ \A c \in RequestCookies :
       getSessionIdFromCookies(c, TRUE) # 0 => verify(CookieText(c)).valid

(***************************************************************************)
(* C21.  After a resolveKey(keyId) cache miss that fetches the key-set     *)
(* document, every key of the document that converts to key material is in *)
(* the key cache.                                                          *)
(***************************************************************************)
C21_AllKeysCached ==
  [][\A kid \in KeyIds \ {Absent}, net \in Networks :
       ( /\ lastDone'.op = "getMicrosoftPublicKeys"
         /\ ResolveKey(kid, net)
         /\ kid \notin keysCache
         /\ fetchMicrosoftJWKS(net) )
       => {k \in JWKSKids : convertJWKToPEM(k)} \subseteq keysCache']_vars

(***************************************************************************)
(* C22.  When every discovery endpoint fails or the key-set fetch fails,   *)
(* the key resolution inside validate yields no key and raises nothing,    *)
(* and validate returns, in that step, valid=false with the bad-signature  *)
(* error.                                                                  *)
(***************************************************************************)
C22_KeyFailureIsBadSignature ==
  [][\A c \in Calls, net \in ValidateNetworks :
       ( /\ call[c].pc = "key"
         /\ ValidateSignature(c, net)
         /\ ~fetchMicrosoftJWKS(net)
         /\ call[c].tok.kid \notin keysCache )
       => ( /\ ~getMicrosoftPublicKeys(keysCache, call[c].tok.kid, net).key
            /\ ~getMicrosoftPublicKeys(keysCache, call[c].tok.kid, net).threw
            /\ call'[c].pc = "idle"
            /\ lastDone'.tok = call[c].tok.id
            /\ lastDone'.ret = Invalid("Invalid token signature")
            /\ ~lastDone'.keyOk
            /\ keysCache' = keysCache )]_vars

\* a token that is good in every respect has been reported with a bad
\* signature because no key could be fetched
C22_Witness ==
  /\ Returned
  /\ lastDone.tok = "good"
  /\ ~lastDone.hit
  /\ ~lastDone.keyOk
  /\ lastDone.ret = Invalid("Invalid token signature")

(***************************************************************************)
(* C23.  After unblacklist(t) has completed, a validate(t) that starts     *)
(* while t is off the blacklist is never answered with the Revoked         *)
(* verdict: no cached Revoked verdict of t outlives the unblacklist call.  *)
(***************************************************************************)
C23_UnblacklistTakesEffect ==
  Returned /\ ~lastDone.blk => lastDone.ret.error # "Token is blacklisted"

\* C23, the step of unblacklist itself: when removeFromBlacklist(t) returns,
\* t is off the blacklist and has no cached verdict
C23_UnblacklistClearsVerdict ==
  [][\A t \in inPlay :
       removeFromBlacklist(t)
       => /\ ~CacheHas(blacklistCache', getTokenHash(t))
          /\ ~CacheHas(validationCache', getTokenCacheKey(t))]_vars

(***************************************************************************)
(* C29.  With validate and blacklist calls interleaved at the suspension   *)
(* points of validate, no state is reachable in which a token is on the    *)
(* blacklist while a valid=true verdict for it sits in the verdict cache.  *)
(***************************************************************************)
C29_NoValidVerdictWhileBlacklisted ==
  \A t \in inPlay :
    isTokenBlacklisted(t) /\ CacheHas(validationCache, getTokenCacheKey(t))
      => ~validationCache[getTokenCacheKey(t)].value.valid

(***************************************************************************)
(* C30.  validate never returns valid=true for a token whose exp lies in   *)
(* the past at the time of the call, when the call is answered from the    *)
(* verdict cache with a verdict that was cached before exp (the call then  *)
(* starts and returns in one step).                                        *)
(***************************************************************************)
C30_NoValidAfterExp ==
  /\ Returned /\ lastDone.hit /\ lastDone.ret.valid
  /\ TokenOf(lastDone.tok).exp # NoClaim
  /\ lastDone.since <= TokenOf(lastDone.tok).exp
  => TokenOf(lastDone.tok).exp >= lastDone.at

(***************************************************************************)
(* C24.  When cleanupExpired() completes under the local-memory backend,   *)
(* no record that is expired or idle per the liveness invariant remains in *)
(* the session store or in a user's index.                                 *)
(***************************************************************************)
C24_SweepLeavesOnlyLive ==
  [][\A inReq \in BOOLEAN :
       sessRet'.op = "sweep" /\ cleanupExpiredSessions(inReq)
       => /\ \A id \in DOMAIN sessionStore' : LiveAt(sessionStore'[id], now)
          /\ \A u \in Users : \A id \in SetOf(IndexAt(userSessions', u)) :
               HasSession(sessionStore', id) /\ LiveAt(sessionStore'[id], now)]_vars

\* C24 with the code's own expiry test: the sweep removes exactly the
\* records that isSessionExpired reports, from the store and from the
\* index, and leaves every other record and index entry as it was
C24_SweepRemovesExpired ==
  [][\A inReq \in BOOLEAN :
       sessRet'.op = "sweep" /\ cleanupExpiredSessions(inReq)
       => /\ DOMAIN sessionStore' =
               {id \in DOMAIN sessionStore : ~isSessionExpired(sessionStore[id], now)}
          /\ \A id \in DOMAIN sessionStore' : sessionStore'[id] = sessionStore[id]
          /\ \A u \in Users :
               IndexAt(userSessions', u) = SelectSeq(IndexAt(userSessions, u),
                                            LAMBDA id : id \in DOMAIN sessionStore')]_vars

(***************************************************************************)
(* C25.  When a cleanup() of the persistent store has finished, whatever   *)
(* was written or deleted between its commands, every session whose record *)
(* is live is still in its user's index.                                   *)
(***************************************************************************)
C25_SweepKeepsLiveSessions ==
  sweep.pc = "idle" =>
    \A id \in DOMAIN redisKeys :
      redisKeys[id].expires > now => id \in SMembers(redisKeys[id].userId)

\* every session whose record is live is in its user's index
IndexCoversLive ==
  \A id \in DOMAIN redisKeys :
    Exists(id) => id \in SMembers(redisKeys[id].userId)

\* C25 apart from the sweep: no step of set, of delete or of the clock
\* takes a live session out of its user's index
C25_OtherStepsKeepIndex ==
  [][IndexCoversLive /\ sweep' = sweep => IndexCoversLive']_vars

(***************************************************************************)
(* C26.  sessionsForUser(userId) never throws; when the backend answers it *)
(* returns exactly the ids of the user's index whose record exists and has *)
(* removed every other id it found from the index; when the backend fails  *)
(* it returns an empty list.                                               *)
(***************************************************************************)
C26_SessionsForUser ==
  [][redisRet'.op = "getUserSessions" /\ redisRet' # redisRet
       => /\ ~redisRet'.threw
          /\ redisRet'.layer = "store" =>
               IF redisRet'.failure = "none"
               THEN /\ redisRet'.ret = {id \in redisRet'.found : Exists(id)}
                    /\ redisRet'.ret = IF redisSets'[redisRet'.userId].expires > now
                                       THEN redisSets'[redisRet'.userId].members ELSE {}
               ELSE redisRet'.ret \subseteq {id \in redisRet'.found : Exists(id)}]_vars

(***************************************************************************)
(* C27.  The session manager behaves the same over both backends: a        *)
(* getSession or destroySession under the persistent backend raises        *)
(* exactly when the same call raises under the local-memory backend.       *)
(***************************************************************************)
C27_BackendsAgree ==
  /\ sessRet.op = "get" /\ redisRet.op = "getSession" => redisRet.threw = sessRet.threw
  /\ sessRet.op = "destroy" /\ redisRet.op = "destroySession" => redisRet.threw = sessRet.threw

(***************************************************************************)
(* C28.  A logged-in user stays authenticated across requests: a request   *)
(* to an API route that carries the session_id cookie the server set last, *)
(* while the session createSession made last is in the store and live, is  *)
(* resolved to isAuthenticated=true for the user of that session.          *)
(***************************************************************************)
C28_StaysAuthenticated ==
  [][\A g \in AnonIds, upstreamOk \in BOOLEAN :
       ( /\ sessRet'.op = "GET"
         /\ conversationsGET(cookie, "none", g, upstreamOk)
         /\ cookie # NoCookie
         /\ HasSession(sessionStore, nextSessionId)
         /\ LiveAt(sessionStore[nextSessionId], now) )
       => /\ sessRet'.info.isAuthenticated
          /\ sessRet'.info.userInfo.id = sessionStore[nextSessionId].userId]_vars

(***************************************************************************)
(* C31.  Every valid=true verdict that validate computes (not a cache      *)
(* hit) is the outcome of the external verification step succeeding, for a *)
(* call that read the token as not blacklisted, decoded it with a key id,  *)
(* resolved a key for that id, verified the signature with the pinned      *)
(* algorithm and an accepted issuer, and passed every claim check; a call  *)
(* reaches a step only through the step before it, so one failing step     *)
(* yields valid=false.                                                     *)
(***************************************************************************)
C31_ValidOnlyThroughEveryStep ==
  [][\A c \in Calls :
       /\ call'[c].pc = "key"
            => /\ call[c].pc \in {"blk", "key"}
               /\ call'[c].tok = call[c].tok
               /\ ~call[c].blk
               /\ call[c].tok.wellFormed
               /\ call[c].tok.kid # Absent
       /\ call'[c].pc = "graph"
            => /\ call[c].pc \in {"key", "graph"}
               /\ call'[c].tok = call[c].tok
               /\ call[c].pc = "key"
                    => /\ call[c].tok.kid \in keysCache'
                       /\ call[c].tok.kid \in JWKSKids
                       /\ call[c].tok.alg = "RS256"
                       /\ call[c].tok.sigOK
                       /\ call[c].tok.iss = "accepted"
                       /\ call[c].tok.exp # NoClaim => call[c].tok.exp > now
                       /\ call[c].tok.nbf # NoClaim => call[c].tok.nbf <= now
                       /\ call[c].tok.iat # NoClaim => call[c].tok.iat <= now + IatSkew
                       /\ call[c].tok.aud \in {Absent, "client"}
                       /\ call[c].tok.oid # Absent \/ call[c].tok.sub # Absent
       /\ ( /\ call[c].pc # "idle"
            /\ call'[c].pc = "idle"
            /\ lastDone'.ret.valid )
            => /\ call[c].pc = "graph"
               /\ ValidateGraph(c, TRUE)
               /\ lastDone'.tok = call[c].tok.id
               /\ ~lastDone'.blk
               /\ lastDone'.keyOk]_vars

\* a pipeline run has accepted the token that carries no audience and is
\* signed with the second key of the key set
C31_Witness ==
  /\ Returned
  /\ ~lastDone.hit
  /\ lastDone.ret.valid
  /\ lastDone.tok = "noaud"
  /\ "k2" \in keysCache

\* the claim check returned last, on its own
ClaimsChecked == "op" \in DOMAIN lastDone /\ lastDone.op = "validateTokenClaims"

C32_ExactApartFromZero ==
  ClaimsChecked /\ lastDone.payload.exp # 0 =>
    ( ~lastDone.ret <=>
        \/ lastDone.payload.exp # NoClaim /\ lastDone.payload.exp < lastDone.at
        \/ lastDone.payload.nbf # NoClaim /\ lastDone.payload.nbf > lastDone.at
        \/ lastDone.payload.iat # NoClaim /\ lastDone.payload.iat > lastDone.at + IatSkew
        \/ /\ lastDone.clientId # Absent
           /\ lastDone.payload.aud # Absent
           /\ lastDone.payload.aud # lastDone.clientId
        \/ lastDone.payload.oid = Absent /\ lastDone.payload.sub = Absent )

(***************************************************************************)
(* C33.  Every validate call of an IP counts in the limiter's window of    *)
(* that IP (the window opens with the first call and lasts one duration).  *)
(* A call that brings the count above the budget returns, in its first     *)
(* step, invalid with the rate-limit error whatever the caches hold, and   *)
(* leaves the verdict cache, the blacklist and the key cache as they were; *)
(* it takes no further step, so it makes no network call.  Hence at most   *)
(* the budget of calls per window gets past the rate check.                *)
(***************************************************************************)
C33_RateLimitedStopsAtOnce ==
  [][\A c \in Calls, t \in inPlay, ip \in ClientIps \ {None} :
       ( /\ call[c].pc = "idle"
         /\ ValidateBegin(c, t, ip) )
       => LET live == rateLimiter[ip].consumed > 0 /\ rateLimiter[ip].expires > now
              count == IF live THEN rateLimiter[ip].consumed + 1 ELSE 1
          IN /\ rateLimiter'[ip].consumed = count
             /\ rateLimiter'[ip].expires =
                  IF live THEN rateLimiter[ip].expires ELSE now + ValidationWindow
             /\ count > ValidationPoints
                  => /\ call'[c].pc = "idle"
                     /\ lastDone'.tok = t.id
                     /\ lastDone'.ret = Invalid("Rate limit exceeded")
                     /\ ~lastDone'.hit
                     /\ validationCache' = validationCache
                     /\ blacklistCache' = blacklistCache
                     /\ keysCache' = keysCache
             /\ count <= ValidationPoints
                  => \/ call'[c].pc = "blk"
                     \/ lastDone'.hit]_vars

\* a call over the budget has been turned away although a valid=true
\* verdict for its token sits in the verdict cache
C33_Witness ==
  /\ Returned
  /\ lastDone.ret = Invalid("Rate limit exceeded")
  /\ lastDone.tok = "good"
  /\ CacheHas(validationCache, getTokenCacheKey(GoodToken))
  /\ validationCache[getTokenCacheKey(GoodToken)].value.valid

(***************************************************************************)
(* C34.  getInfo returns isAuthenticated=true only when the request's      *)
(* session cookie decrypts to a session id whose record is in the session  *)
(* store and live per the liveness invariant, and then userInfo.id is that *)
(* record's userId.                                                        *)
(***************************************************************************)
C34_AuthenticatedOnlyLive ==
  [][\A c \in RequestCookies, failure \in Failures, g \in AnonIds :
       ( /\ sessRet'.op = "getInfo"
         /\ getInfo(c, failure, g)
         /\ sessRet'.info.isAuthenticated )
       => /\ ~DecryptThrows(c)
          /\ HasSession(sessionStore, c.sessionId)
          /\ LiveAt(sessionStore[c.sessionId], now)
          /\ sessRet'.info.userInfo.id = sessionStore[c.sessionId].userId]_vars

\* C34 with a record counted as live up to and including its expiry instant
\* and its idle timeout
C34_ApartFromBoundary ==
  [][\A c \in RequestCookies, failure \in Failures, g \in AnonIds :
       ( /\ sessRet'.op = "getInfo"
         /\ getInfo(c, failure, g)
         /\ sessRet'.info.isAuthenticated )
       => /\ ~DecryptThrows(c)
          /\ HasSession(sessionStore, c.sessionId)
          /\ sessionStore[c.sessionId].tokenExpiry >= now
          /\ now - sessionStore[c.sessionId].lastActivity <= SESSION_TIMEOUT
          /\ failure = "none"
          /\ sessRet'.info.userInfo.id = sessionStore[c.sessionId].userId
          /\ sessRet'.info.sessionId = [kind |-> "session", id |-> c.sessionId]]_vars

\* the token is good in every respect at `time`: well-formed, signed with a
\* key of the key set that converts, pinned algorithm, accepted issuer, exp
\* later, no nbf, iat within the skew, aud the client id, a subject claim
GoodAt(t, time) ==
  /\ SignedUnexpiredForClient(t, time)
  /\ convertJWKToPEM(t.kid)
  /\ t.nbf = NoClaim
  /\ t.iat # NoClaim => t.iat <= time + IatSkew
  /\ t.oid # Absent \/ t.sub # Absent

(***************************************************************************)
(* C35.  A bad-signature verdict that a token good in every respect        *)
(* received only because no signing key could be fetched is never the      *)
(* answer of a later validate of that token from the verdict cache.        *)
(***************************************************************************)
C35_UpstreamFailureNotCached ==
  ( /\ Returned
    /\ lastDone.hit
    /\ ~lastDone.blk
    /\ GoodAt(TokenOf(lastDone.tok), lastDone.at) )
  => lastDone.ret.error # "Invalid token signature"

(***************************************************************************)
(* C36.  When createSession throws, the session store and the user index   *)
(* are as they were before the call: no session of the user has been       *)
(* evicted and no new record remains.                                      *)
(***************************************************************************)
C36_ThrowLeavesStoreUntouched ==
  [][\A userId \in Users, tokenData \in CreateInputs, inReq \in BOOLEAN :
       ( /\ sessRet'.op = "create"
         /\ createSession(userId, tokenData, inReq)
         /\ sessRet'.threw )
       => /\ sessionStore' = sessionStore
          /\ userSessions' = userSessions]_vars

\* C36, what a throwing createSession does leave alone: the sessions of the
\* other users, and the client's cookie unless a session was evicted
C36_ThrowLeavesOthersUntouched ==
  [][\A userId \in Users, tokenData \in CreateInputs, inReq \in BOOLEAN :
       ( /\ sessRet'.op = "create"
         /\ createSession(userId, tokenData, inReq)
         /\ sessRet'.threw )
       => /\ \A u \in Users \ {userId} : IndexAt(userSessions', u) = IndexAt(userSessions, u)
          /\ \A id \in DOMAIN sessionStore :
               sessionStore[id].userId # userId
                 => id \in DOMAIN sessionStore' /\ sessionStore'[id] = sessionStore[id]
          /\ sessRet'.dropped = {} => cookie' = cookie]_vars

(***************************************************************************)
(* C37.  updateSession(id, tokenData) on a stored session that is expired  *)
(* or idle per the liveness invariant returns null and does not make the   *)
(* session live again.                                                     *)
(***************************************************************************)
C37_UpdateOnlyLive ==
  [][\A sessionId \in SessionIds, tokenData \in UpdateInputs, inReq \in BOOLEAN :
       ( /\ sessRet'.op = "update"
         /\ updateSession(sessionId, tokenData, inReq)
         /\ HasSession(sessionStore, sessionId)
         /\ ~LiveAt(sessionStore[sessionId], now) )
       => /\ ~sessRet'.found
          /\ HasSession(sessionStore', sessionId)
               => ~LiveAt(sessionStore'[sessionId], now)]_vars

(***************************************************************************)
(* C38.  In the local-memory session manager, between any two calls of     *)
(* createSession, getSession, updateSession, destroySession and            *)
(* cleanupExpiredSessions, the user index and the record store agree: a    *)
(* session id is in a user's index set exactly when a record with that id  *)
(* and that userId is in the store, and no user maps to an empty set.      *)
(***************************************************************************)
C38_IndexAgreesWithStore ==
  /\ \A u \in DOMAIN userSessions : userSessions[u] # <<>>
  /\ \A u \in DOMAIN userSessions : \A id \in SetOf(userSessions[u]) :
       HasSession(sessionStore, id) /\ sessionStore[id].userId = u
  /\ \A id \in DOMAIN sessionStore :
       /\ sessionStore[id].userId \in DOMAIN userSessions
       /\ id \in SetOf(userSessions[sessionStore[id].userId])

\* the last session of one user has been destroyed while another user still
\* holds a session: the first user has no entry in the index any more
C38_Witness ==
  /\ sessRet.op = "destroy"
  /\ sessRet.existed
  /\ ~HasSession(sessionStore, sessRet.id)
  /\ DOMAIN userSessions = {"u2"}
  /\ userSessions["u2"] # <<>>

(***************************************************************************)
(* C39.  For a signed-in account with the identity provider configured,    *)
(* and with every request to the server answered, getAccessToken returns   *)
(* null only when both silent and popup token acquisition fail; it returns *)
(* a token whenever silent acquisition would succeed, whether or not a     *)
(* live server session exists.                                             *)
(***************************************************************************)
C39_TokenWheneverObtainable ==
  ( /\ sessRet.op = "getAccessToken"
    /\ sessRet.sessionFetch = "answers"
    /\ sessRet.posting = "answers"
    /\ sessRet.token = None )
  => ~sessRet.silent /\ ~sessRet.popup

\* C39 for a client without a live server session: there the token comes
\* back whenever one of the two acquisitions succeeds
C39_WithoutLiveSession ==
  ( /\ sessRet.op = "getAccessToken"
    /\ sessRet.sessionFetch = "answers"
    /\ sessRet.posting = "answers"
    /\ ~sessRet.fromSession
    /\ sessRet.token = None )
  => ~sessRet.silent /\ ~sessRet.popup

====
